---------------------------- MODULE Spec2Model ----------------------------
(***************************************************************************)
(* The undo/redo observer tree of pitivi/undo/timeline.py.                 *)
(*                                                                         *)
(* The document (a GES timeline: layers, clips, track elements, control    *)
(* bindings, control sources) is a heap of objects.  Every document        *)
(* operation emits its GObject signal synchronously; the handlers          *)
(* connected to (object, signal) run in connection order, each handler     *)
(* being one of the observer callbacks of timeline.py.  A whole top-level  *)
(* operation (an edit, an undo, a redo) together with every callback it    *)
(* triggers is one step.                                                   *)
(*                                                                         *)
(* Object identities are integers: 0 is the timeline (and the             *)
(* TimelineObserver), Layers and UriClips are allocated up front, every    *)
(* other object (track element, transition clip, control source, observer) *)
(* gets the next free identity nid when it is created.  0 is also None.    *)
(***************************************************************************)
EXTENDS Integers, Sequences, FiniteSets, TLC

\* ------------------------------------------------------------------ bounds
\* Edits per behaviour, and undo/redo calls per behaviour.
MaxEdits == 2
MaxReplay == 4
\* Child property sets that may follow an unbinding once the edits are used up.
MaxLateSets == 1
\* Method calls per behaviour of MethodSpec.
MaxCalls == 3
\* calls of GnomeSystem methods in a run
MaxSystemCalls == 5

\* ---------------------------------------------------------------- universe
Timeline == 0
None == 0
Layers == {1, 2}
UriClips == {11, 12}
Priorities == {0, 1}
Values == {0, 1}
Times == {0, 1}

\* pitivi.effects.PROPS_TO_IGNORE (imported at timeline.py:23); "qos" is the
\* one of them the modelled elements have.
PROPS_TO_IGNORE == {"name", "qos", "silent", "message", "parent"}
\* timeline.py:34
TRANSITION_PROPS == <<"border", "invert", "transition-type">>
TransitionProps == {TRANSITION_PROPS[i] : i \in 1..Len(TRANSITION_PROPS)}
\* The child properties of a source or an effect element.
ChildProps == {"alpha", "qos"}
\* A child property an element gets after its observers were made.
LateProps == {"gamma"}
\* LayerObserver._connectToClip: props of the clip's GObjectObserver.
ClipProps == {"start", "duration", "in-point", "priority"}

ClipStart(c) == IF c = 11 THEN 0 ELSE 5
ClipDuration(c) == 10

VARIABLES
    \* the document
    tlLayers,           \* layers in the timeline
    prio,               \* layer -> priority
    lclips,             \* layer -> set of clips
    clipObj,            \* clip -> [kind, start, duration, children, layer]
    elemObj,            \* track element -> [kind, parent, asset, props, active, bindings]
    csObj,              \* control source -> (timestamp -> value)
    nid,                \* next free identity
    \* the observers
    layer_observers,    \* TimelineObserver.layer_observers: layer -> LayerObserver
    obsObj,             \* observer -> its fields
    subs,               \* signal connections, in connection order
    \* the action log
    log,                \* entries [a: action, src, st]
    updates,            \* UndoableAutomaticObjectAction.__updates
    \* the last step
    hist,               \* its notifications, pushes and commits, in order
    errs,               \* exceptions raised in its callbacks or its replay
    last,               \* what it was; pre: the layers and their clips before it
    rtDoc,              \* document before the do() of a do()/undo() pair
    \* bookkeeping
    doc0,               \* document when the TimelineObserver was constructed
    editDoc,            \* document after the latest edit
    phase,              \* "edit", "undo", "redo" or "mixed"
    nEdit, nReplay,
    \* pitivi.utils.system
    gnome               \* the GnomeSystem object and its session manager

timelineVars == <<tlLayers, prio, lclips, clipObj, elemObj, csObj, nid,
                  layer_observers, obsObj, subs, log, updates, hist, errs, last,
                  rtDoc, doc0, editDoc, phase, nEdit, nReplay>>

vars == <<timelineVars, gnome>>

RECURSIVE Call(_, _)

\* ----------------------------------------------------------------- helpers
EmptyMap == << >>

Put(f, k, v) == (k :> v) @@ f

Drop(f, k) == [x \in DOMAIN f \ {k} |-> f[x]] @@ EmptyMap

Min(S) == CHOOSE x \in S : \A y \in S : x <= y

RECURSIVE Sorted(_)
Sorted(S) == IF S = {} THEN << >> ELSE <<Min(S)>> \o Sorted(S \ {Min(S)})

\* The world the operators below transform: the variables as one record.
\* exc is the Python exception in flight ("" when none); mode says who is
\* pushing ("ctor", "edit", "replay").
World ==
    [tlLayers |-> tlLayers, prio |-> prio, lclips |-> lclips,
     clipObj |-> clipObj, elemObj |-> elemObj, csObj |-> csObj, nid |-> nid,
     layer_observers |-> layer_observers, obsObj |-> obsObj, subs |-> subs,
     log |-> log, updates |-> updates,
     hist |-> << >>, errs |-> << >>, exc |-> "", mode |-> "edit"]

Raise(w, e) == IF w.exc # "" THEN w ELSE [w EXCEPT !.exc = e]

Note(w, h) == [w EXCEPT !.hist = Append(@, h)]

\* ------------------------------------------------------------ the action log
\* ClipRemoved.expand
ClipRemoved_expand_accepts(self, action) == action.kind = "TransitionRemoved"

ClipRemoved_expand(self, action) ==
    [self EXCEPT !.transition_removed_actions = Append(@, action)]

\* UndoableActionLog.push: the log offers the action to the latest entry when
\* that entry is expandable (ExpandableUndoableAction), and appends it
\* otherwise.
Push(w, action) ==
    LET w1 == Note(w, [t |-> "push", a |-> action])
        n == Len(w1.log)
    IN IF /\ n > 0
          /\ w1.log[n].a.kind = "ClipRemoved"
          /\ ClipRemoved_expand_accepts(w1.log[n].a, action)
       THEN [w1 EXCEPT !.log[n].a = ClipRemoved_expand(@, action)]
       ELSE [w1 EXCEPT !.log = Append(@, [a |-> action, src |-> w.mode,
                                         st |-> "done"])]

\* UndoableAutomaticObjectAction.update_object
update_object(w, auto_object, new_auto_object) ==
    [w EXCEPT !.updates = Put(Put(@, auto_object, new_auto_object),
                              new_auto_object, new_auto_object)]

\* UndoableAutomaticObjectAction.auto_object
auto_object(w, obj) == IF obj \in DOMAIN w.updates THEN w.updates[obj] ELSE obj

\* ---------------------------------------------------- GObject connections
Connect(w, obj, sig, obs, cb) ==
    [w EXCEPT !.subs = Append(@, [obj |-> obj, sig |-> sig, obs |-> obs,
                                  cb |-> cb])]

SubIndexes(w, obj, obs, cb) ==
    {i \in 1..Len(w.subs) :
        /\ w.subs[i].obj = obj /\ w.subs[i].obs = obs /\ w.subs[i].cb = cb}

RemoveAt(s, i) == SubSeq(s, 1, i - 1) \o SubSeq(s, i + 1, Len(s))

\* GObject.Object.disconnect_by_func: drops the first connection of the
\* callable on the object, TypeError when there is none.
disconnect_by_func(w, obj, obs, cb) ==
    IF w.exc # "" THEN w
    ELSE IF SubIndexes(w, obj, obs, cb) = {} THEN Raise(w, "TypeError")
    ELSE [w EXCEPT !.subs = RemoveAt(@, Min(SubIndexes(w, obj, obs, cb)))]

Alloc(w) == [w EXCEPT !.nid = @ + 1]

\* ----------------------------------------------------- document accessors
\* GES.Container.get_children, GES.Layer.get_clips: in a fixed order.
get_children(w, c) == Sorted(w.clipObj[c].children)

get_clips(w, l) == Sorted(w.lclips[l])

IsTransitionClip(w, c) == w.clipObj[c].kind = "transition"

\* The GObject properties a GObjectObserver reads from a clip.
ClipPropValues(w, c) ==
    [p \in ClipProps |->
        IF p = "start" THEN w.clipObj[c].start
        ELSE IF p = "duration" THEN w.clipObj[c].duration
        ELSE 0]

\* ------------------------------------------------------- GObjectObserver
\* pitivi.undo.undo.GObjectObserver: snapshots the named properties and
\* listens to their notify signal.
GObjectObserver_init(w, gobject, values) ==
    LET g == w.nid
        w1 == Alloc(w)
        w2 == [w1 EXCEPT !.obsObj = Put(@, g, [type |-> "GObjectObserver",
                                                gobject |-> gobject,
                                                properties |-> values])]
    IN Connect(w2, gobject, "notify", g, "GObjectObserver._property_changed_cb")

GObjectObserver_release(w, g) ==
    LET w1 == Call("disconnect_by_func", <<w, w.obsObj[g].gobject, g,
                                 "GObjectObserver._property_changed_cb">>)
    IN IF w1.exc # "" THEN w1 ELSE [w1 EXCEPT !.obsObj[g].gobject = None]

GObjectObserver_property_changed_cb(w, self, gobject, property_name) ==
    LET old_value == w.obsObj[self].properties[property_name]
        new_value == w.elemObj[gobject].props[property_name]
    IN IF old_value = new_value THEN w
       ELSE Call("Push", <<[w EXCEPT !.obsObj[self].properties[property_name] = new_value],
                 [kind |-> "ObjectPropertyChanged", gobject |-> gobject,
                  property_name |-> property_name,
                  old_value |-> old_value, new_value |-> new_value]>>)

\* ------------------------------------------------ TimelineElementObserver
\* TimelineElementObserver.__init__
TimelineElementObserver_init(w, ges_timeline_element) ==
    LET t == w.nid
        all == w.elemObj[ges_timeline_element].props
        w1 == Alloc(w)
        w2 == [w1 EXCEPT !.obsObj = Put(@, t,
                 [type |-> "TimelineElementObserver",
                  ges_timeline_element |-> ges_timeline_element,
                  properties |-> [p \in DOMAIN all \ PROPS_TO_IGNORE |-> all[p]]])]
    IN Connect(w2, ges_timeline_element, "deep-notify", t,
               "TimelineElementObserver._property_changed_cb")

\* TimelineElementObserver.release
TimelineElementObserver_release(w, t) ==
    LET w1 == Call("disconnect_by_func", <<w, w.obsObj[t].ges_timeline_element, t,
                                 "TimelineElementObserver._property_changed_cb">>)
    IN IF w1.exc # "" THEN w1
       ELSE [w1 EXCEPT !.obsObj[t].ges_timeline_element = None]

\* A _property_changed_cb without the control binding test: what C7 rules out.
TimelineElementObserver_property_changed_cb_Unbound(w, self, ges_timeline_element, prop_name) ==
    IF prop_name \in PROPS_TO_IGNORE THEN w
    ELSE IF prop_name \notin DOMAIN w.obsObj[self].properties
         THEN Raise(w, "KeyError")
    ELSE LET old_value == w.obsObj[self].properties[prop_name]
             new_value == w.elemObj[ges_timeline_element].props[prop_name]
         IN Call("Push", <<[w EXCEPT !.obsObj[self].properties[prop_name] = new_value],
                 [kind |-> "PropertyChanged",
                  track_element |-> ges_timeline_element,
                  property_name |-> prop_name,
                  old_value |-> old_value, new_value |-> new_value]>>)

\* A _property_changed_cb that takes a property it has no snapshot of as new:
\* what C28 rules out.
TimelineElementObserver_property_changed_cb_Lenient(w, self, ges_timeline_element, prop_name) ==
    IF prop_name \in PROPS_TO_IGNORE THEN w
    ELSE IF prop_name \in DOMAIN w.elemObj[ges_timeline_element].bindings THEN w
    ELSE LET old_value == IF prop_name \in DOMAIN w.obsObj[self].properties
                          THEN w.obsObj[self].properties[prop_name] ELSE None
             new_value == w.elemObj[ges_timeline_element].props[prop_name]
         IN Call("Push", <<[w EXCEPT !.obsObj[self].properties =
                                        Put(@, prop_name, new_value)],
                 [kind |-> "PropertyChanged",
                  track_element |-> ges_timeline_element,
                  property_name |-> prop_name,
                  old_value |-> old_value, new_value |-> new_value]>>)

\* TimelineElementObserver._property_changed_cb
TimelineElementObserver_property_changed_cb(w, self, ges_timeline_element, prop_name) ==
    IF prop_name \in PROPS_TO_IGNORE THEN w
    ELSE IF prop_name \in DOMAIN w.elemObj[ges_timeline_element].bindings THEN w
    ELSE IF prop_name \notin DOMAIN w.obsObj[self].properties
         THEN Raise(w, "KeyError")
    ELSE LET old_value == w.obsObj[self].properties[prop_name]
             new_value == w.elemObj[ges_timeline_element].props[prop_name]
         IN Call("Push", <<[w EXCEPT !.obsObj[self].properties[prop_name] = new_value],
                 [kind |-> "PropertyChanged",
                  track_element |-> ges_timeline_element,
                  property_name |-> prop_name,
                  old_value |-> old_value, new_value |-> new_value]>>)

\* -------------------------------------------------- ControlSourceObserver
\* ControlSourceObserver.__init__
ControlSourceObserver_init(w, control_source, action_info) ==
    LET k == w.nid
        live == w.csObj[control_source]
        w1 == Alloc(w)
        w2 == [w1 EXCEPT !.obsObj = Put(@, k,
                 [type |-> "ControlSourceObserver",
                  control_source |-> control_source,
                  action_info |-> action_info,
                  keyframes |-> [ts \in DOMAIN live |-> <<ts, live[ts]>>]])]
        w3 == Connect(w2, control_source, "value-added", k,
                      "ControlSourceObserver._keyframe_added_cb")
        w4 == Connect(w3, control_source, "value-changed", k,
                      "ControlSourceObserver._keyframe_moved_cb")
    IN Connect(w4, control_source, "value-removed", k,
               "ControlSourceObserver._keyframe_removed_cb")

\* ControlSourceObserver.release
ControlSourceObserver_release(w, k) ==
    LET cs == w.obsObj[k].control_source
        w1 == Call("disconnect_by_func", <<w, cs, k, "ControlSourceObserver._keyframe_added_cb">>)
        w2 == Call("disconnect_by_func", <<w1, cs, k, "ControlSourceObserver._keyframe_moved_cb">>)
        w3 == Call("disconnect_by_func", <<w2, cs, k, "ControlSourceObserver._keyframe_removed_cb">>)
    IN IF w3.exc # "" THEN w3 ELSE [w3 EXCEPT !.obsObj[k].control_source = None]

\* ControlSourceObserver._keyframe_added_cb
ControlSourceObserver_keyframe_added_cb(w, self, control_source, keyframe) ==
    Call("Push", <<[w EXCEPT !.obsObj[self].keyframes =
                       Put(@, keyframe.timestamp,
                           <<keyframe.timestamp, keyframe.value>>)],
         [kind |-> "KeyframeAdded", control_source |-> control_source,
          timestamp |-> keyframe.timestamp, value |-> keyframe.value,
          action_info |-> w.obsObj[self].action_info]>>)

\* ControlSourceObserver._keyframe_moved_cb
ControlSourceObserver_keyframe_moved_cb(w, self, control_source, keyframe) ==
    IF keyframe.timestamp \notin DOMAIN w.obsObj[self].keyframes
    THEN Raise(w, "KeyError")
    ELSE LET old_snapshot == w.obsObj[self].keyframes[keyframe.timestamp]
             new_snapshot == <<keyframe.timestamp, keyframe.value>>
         IN Call("Push", <<[w EXCEPT !.obsObj[self].keyframes[keyframe.timestamp] =
                               new_snapshot],
                 [kind |-> "KeyframeChanged", control_source |-> control_source,
                  old_snapshot |-> old_snapshot, new_snapshot |-> new_snapshot]>>)

\* ControlSourceObserver._keyframe_removed_cb
ControlSourceObserver_keyframe_removed_cb(w, self, control_source, keyframe) ==
    IF keyframe.timestamp \notin DOMAIN w.obsObj[self].keyframes
    THEN Raise(w, "KeyError")
    ELSE Call("Push", <<Note([w EXCEPT !.obsObj[self].keyframes =
                                           Drop(@, keyframe.timestamp)],
                             [t |-> "del", obs |-> self,
                              pair |-> w.obsObj[self].keyframes[keyframe.timestamp]]),
              [kind |-> "KeyframeRemoved", control_source |-> control_source,
               timestamp |-> keyframe.timestamp, value |-> keyframe.value,
               action_info |-> w.obsObj[self].action_info]>>)

\* ----------------------------------------------------------- LayerObserver
\* LayerObserver._connectToControlSource
LayerObserver_connectToControlSource(w, self, track_element, binding) ==
    IF w.exc # "" THEN w
    ELSE LET k == w.nid
             w1 == Call("ControlSourceObserver_init", <<w, binding.control_source,
                       [element |-> track_element, property |-> binding.name]>>)
         IN [w1 EXCEPT !.obsObj[self].keyframe_observers =
                           Put(@, binding.control_source, k)]

\* LayerObserver._disconnectFromControlSource
LayerObserver_disconnectFromControlSource(w, self, binding) ==
    IF w.exc # "" THEN w
    ELSE IF binding.control_source \notin DOMAIN w.obsObj[self].keyframe_observers
         THEN Raise(w, "KeyError")
    ELSE LET k == w.obsObj[self].keyframe_observers[binding.control_source]
         IN Call("ControlSourceObserver_release", <<
                [w EXCEPT !.obsObj[self].keyframe_observers =
                              Drop(@, binding.control_source)], k>>)

\* track_element.get_all_control_bindings().items(), in a fixed order
Bindings(w, e) ==
    LET b == w.elemObj[e].bindings
        ps == IF "alpha" \in DOMAIN b THEN <<"alpha">> ELSE << >>
        qs == IF "qos" \in DOMAIN b THEN <<"qos">> ELSE << >>
    IN [i \in 1..Len(ps \o qs) |->
            [name |-> (ps \o qs)[i], control_source |-> b[(ps \o qs)[i]]]]

ConnectBindings(w, self, e, bs) ==
    IF bs = << >> THEN w
    ELSE Call("ConnectBindings", <<LayerObserver_connectToControlSource(w, self, e, Head(bs)),
                         self, e, Tail(bs)>>)

DisconnectBindings(w, self, bs) ==
    IF bs = << >> THEN w
    ELSE Call("DisconnectBindings", <<LayerObserver_disconnectFromControlSource(w, self, Head(bs)),
                            self, Tail(bs)>>)

\* TransitionClipAction.__init__ as used by TransitionClipAddedAction
TransitionClipAddedAction(w, ges_layer, ges_clip, track_element) ==
    [kind |-> "TransitionAdded", ges_layer |-> ges_layer,
     start |-> w.clipObj[ges_clip].start,
     duration |-> w.clipObj[ges_clip].duration,
     track_element |-> track_element]

\* LayerObserver._connectToTrackElement
LayerObserver_connectToTrackElement(w, self, track_element) ==
    IF w.exc # "" THEN w
    ELSE IF w.elemObj[track_element].kind = "VideoTransition"
    THEN LET ges_clip == w.elemObj[track_element].parent
             ges_layer == w.clipObj[ges_clip].layer
             w1 == Call("Push", <<w, TransitionClipAddedAction(w, ges_layer, ges_clip,
                                                     track_element)>>)
             g == w1.nid
             w2 == Call("GObjectObserver_init", <<w1, track_element,
                       [p \in TransitionProps |-> w.elemObj[track_element].props[p]]>>)
         IN [w2 EXCEPT !.obsObj[self].track_element_observers =
                           Put(@, track_element, g)]
    ELSE LET w1 == Call("ConnectBindings", <<w, self, track_element, Bindings(w, track_element)>>)
             w2 == Connect(w1, track_element, "control-binding-added", self,
                           "LayerObserver._controlBindingAddedCb")
         IN IF w.elemObj[track_element].kind \in {"BaseEffect", "VideoSource"}
            THEN LET t == w2.nid
                     w3 == Call("TimelineElementObserver_init", <<w2, track_element>>)
                 IN [w3 EXCEPT !.obsObj[self].track_element_observers =
                                   Put(@, track_element, t)]
            ELSE w2

\* LayerObserver._disconnectFromTrackElement
LayerObserver_disconnectFromTrackElement(w, self, track_element) ==
    IF w.exc # "" THEN w
    ELSE LET w1 == Call("DisconnectBindings", <<w, self, Bindings(w, track_element)>>)
             teo == w.obsObj[self].track_element_observers
         IN IF w1.exc # "" \/ track_element \notin DOMAIN teo THEN w1
            ELSE LET w2 == [w1 EXCEPT !.obsObj[self].track_element_observers =
                                          Drop(@, track_element)]
                 IN IF w.obsObj[teo[track_element]].type = "GObjectObserver"
                    THEN Call("GObjectObserver_release", <<w2, teo[track_element]>>)
                    ELSE Call("TimelineElementObserver_release", <<w2, teo[track_element]>>)

ConnectChildren(w, self, es) ==
    IF es = << >> THEN w
    ELSE Call("ConnectChildren", <<LayerObserver_connectToTrackElement(w, self, Head(es)),
                         self, Tail(es)>>)

DisconnectChildren(w, self, es) ==
    IF es = << >> THEN w
    ELSE Call("DisconnectChildren", <<LayerObserver_disconnectFromTrackElement(w, self, Head(es)),
                            self, Tail(es)>>)

\* LayerObserver._connectToClip
LayerObserver_connectToClip(w, self, ges_clip) ==
    IF w.exc # "" THEN w
    ELSE LET w1 == Connect(w, ges_clip, "child-added", self,
                           "LayerObserver._clipTrackElementAddedCb")
             w2 == Connect(w1, ges_clip, "child-removed", self,
                           "LayerObserver._clipTrackElementRemovedCb")
             w3 == Call("ConnectChildren", <<w2, self, get_children(w, ges_clip)>>)
         IN IF w3.exc # "" \/ IsTransitionClip(w, ges_clip) THEN w3
            ELSE LET g == w3.nid
                     w4 == Call("GObjectObserver_init", <<w3, ges_clip,
                                                ClipPropValues(w, ges_clip)>>)
                 IN [w4 EXCEPT !.obsObj[self].clip_observers = Put(@, ges_clip, g)]

\* LayerObserver._disconnectFromClip
LayerObserver_disconnectFromClip(w, self, ges_clip) ==
    IF w.exc # "" THEN w
    ELSE LET w1 == Call("disconnect_by_func", <<w, ges_clip, self,
                                      "LayerObserver._clipTrackElementAddedCb">>)
             w2 == Call("disconnect_by_func", <<w1, ges_clip, self,
                                      "LayerObserver._clipTrackElementRemovedCb">>)
             w3 == Call("DisconnectChildren", <<w2, self, get_children(w, ges_clip)>>)
         IN IF w3.exc # "" \/ IsTransitionClip(w, ges_clip) THEN w3
            ELSE IF ges_clip \notin DOMAIN w3.obsObj[self].clip_observers
                 THEN Raise(w3, "KeyError")
            ELSE Call("GObjectObserver_release", <<
                     [w3 EXCEPT !.obsObj[self].clip_observers = Drop(@, ges_clip)],
                     w3.obsObj[self].clip_observers[ges_clip]>>)

\* LayerObserver._controlBindingAddedCb
LayerObserver_controlBindingAddedCb(w, self, track_element, binding) ==
    LET w1 == Call("LayerObserver_connectToControlSource", <<w, self, track_element, binding>>)
    IN IF w1.exc # "" THEN w1
       ELSE Call("Push", <<w1, [kind |-> "ControlBindingSet",
                      action_info |-> [element |-> track_element,
                                       property |-> binding.name]]>>)

\* TransitionClipAction.get_video_element
get_video_element(w, ges_clip) ==
    LET vs == {e \in w.clipObj[ges_clip].children :
                   w.elemObj[e].kind = "VideoTransition"}
    IN IF vs = {} THEN None ELSE Min(vs)

\* What a classmethod new() returns for None.
NoAction == [kind |-> "None"]

\* TransitionClipRemovedAction.new and __init__
TransitionClipRemovedAction_new(w, ges_layer, ges_clip) ==
    LET track_element == get_video_element(w, ges_clip)
    IN IF track_element = None THEN NoAction
       ELSE [kind |-> "TransitionRemoved", ges_layer |-> ges_layer,
             start |-> w.clipObj[ges_clip].start,
             duration |-> w.clipObj[ges_clip].duration,
             track_element |-> track_element,
             properties |-> [p \in TransitionProps |->
                                 w.elemObj[track_element].props[p]]]

\* A _clipAddedCb that returns before it pushes: what C4 rules out.
LayerObserver_clipAddedCb_NoPush(w, self, layer, clip) ==
    Call("LayerObserver_connectToClip", <<w, self, clip>>)

\* A _clipAddedCb that treats a transition clip as any clip: what C12 rules out.
LayerObserver_clipAddedCb_AnyClip(w, self, layer, clip) ==
    LET w1 == Call("LayerObserver_connectToClip", <<w, self, clip>>)
    IN IF w1.exc # "" THEN w1
       ELSE Call("Push", <<w1, [kind |-> "ClipAdded", layer |-> layer, clip |-> clip]>>)

\* LayerObserver._clipAddedCb
LayerObserver_clipAddedCb(w, self, layer, clip) ==
    LET w1 == Call("LayerObserver_connectToClip", <<w, self, clip>>)
    IN IF w1.exc # "" \/ IsTransitionClip(w, clip) THEN w1
       ELSE Call("Push", <<w1, [kind |-> "ClipAdded", layer |-> layer, clip |-> clip]>>)

\* LayerObserver._clipRemovedCb
LayerObserver_clipRemovedCb(w, self, layer, clip) ==
    LET w1 == Call("LayerObserver_disconnectFromClip", <<w, self, clip>>)
    IN IF w1.exc # "" THEN w1
       ELSE IF IsTransitionClip(w, clip)
       THEN LET action == TransitionClipRemovedAction_new(w1, layer, clip)
            IN IF action = NoAction THEN w1 ELSE Call("Push", <<w1, action>>)
       ELSE Call("Push", <<w1, [kind |-> "ClipRemoved", layer |-> layer, clip |-> clip,
                      transition_removed_actions |-> << >>]>>)

\* TrackElementAction.__init__: every child property of the modelled
\* elements is writable.
TrackElementAction(w, kind, clip, track_element) ==
    LET all == w.elemObj[track_element].props
    IN [kind |-> kind, clip |-> clip, track_element |-> track_element,
        asset |-> w.elemObj[track_element].asset,
        track_element_props |-> [p \in DOMAIN all \ PROPS_TO_IGNORE |-> all[p]]]

\* LayerObserver._clipTrackElementAddedCb
LayerObserver_clipTrackElementAddedCb(w, self, clip, ges_track_element) ==
    LET w1 == Call("LayerObserver_connectToTrackElement", <<w, self, ges_track_element>>)
    IN IF w1.exc # "" \/ w.elemObj[ges_track_element].kind # "BaseEffect" THEN w1
       ELSE Call("Push", <<w1, TrackElementAction(w1, "EffectAdded", clip, ges_track_element)>>)

\* LayerObserver._clipTrackElementRemovedCb
LayerObserver_clipTrackElementRemovedCb(w, self, clip, ges_track_element) ==
    LET w1 == Call("LayerObserver_disconnectFromTrackElement", <<w, self, ges_track_element>>)
    IN IF w1.exc # "" \/ w.elemObj[ges_track_element].kind # "BaseEffect" THEN w1
       ELSE Call("Push", <<w1, TrackElementAction(w1, "EffectRemoved", clip, ges_track_element)>>)

\* ActivePropertyChanged.__init__
ActivePropertyChanged(effect_action, active) ==
    [kind |-> "ActiveToggled", effect_action |-> effect_action, active |-> ~active]

\* LayerObserver._trackElementActiveChangedCb; timeline.py connects it to no
\* signal.
LayerObserver_trackElementActiveChangedCb(w, self, track_element, active, add_effect_action) ==
    Call("Push", <<w, ActivePropertyChanged(add_effect_action, active)>>)

\* A __layer_moved_cb that puts the layer at priority 0 itself: what C27
\* rules out.
LayerObserver_layer_moved_cb_Normalises(w, self, ges_layer) ==
    LET current == w.prio[ges_layer]
        w1 == Call("Push", <<w, [kind |-> "LayerMoved", ges_layer |-> ges_layer,
                       old_priority |-> w.obsObj[self].priority,
                       priority |-> current]>>)
    IN Call("set_priority", <<[w1 EXCEPT !.obsObj[self].priority = current],
                              ges_layer, 0>>)

\* LayerObserver.__layer_moved_cb
LayerObserver_layer_moved_cb(w, self, ges_layer) ==
    LET current == w.prio[ges_layer]
        w1 == Call("Push", <<w, [kind |-> "LayerMoved", ges_layer |-> ges_layer,
                       old_priority |-> w.obsObj[self].priority,
                       priority |-> current]>>)
    IN [w1 EXCEPT !.obsObj[self].priority = current]

ConnectClips(w, self, cs) ==
    IF cs = << >> THEN w
    ELSE Call("ConnectClips", <<LayerObserver_connectToClip(w, self, Head(cs)), self, Tail(cs)>>)

\* A LayerObserver.__init__ that writes the priority of its layer: what C31
\* rules out.
LayerObserver_init_Renumbers(w, ges_layer) ==
    LET self == w.nid
        w1 == Alloc(w)
        w2 == [w1 EXCEPT !.obsObj = Put(@, self,
                 [type |-> "LayerObserver", layer |-> ges_layer,
                  priority |-> w.prio[ges_layer],
                  keyframe_observers |-> EmptyMap,
                  track_element_observers |-> EmptyMap,
                  clip_observers |-> EmptyMap]),
                         !.prio[ges_layer] = 1 - @]
        w3 == Connect(w2, ges_layer, "clip-added", self, "LayerObserver._clipAddedCb")
        w4 == Connect(w3, ges_layer, "clip-removed", self, "LayerObserver._clipRemovedCb")
        w5 == Connect(w4, ges_layer, "notify::priority", self,
                      "LayerObserver.__layer_moved_cb")
    IN Call("ConnectClips", <<w5, self, get_clips(w, ges_layer)>>)

\* LayerObserver.__init__
LayerObserver_init(w, ges_layer) ==
    LET self == w.nid
        w1 == Alloc(w)
        w2 == [w1 EXCEPT !.obsObj = Put(@, self,
                 [type |-> "LayerObserver", layer |-> ges_layer,
                  priority |-> w.prio[ges_layer],
                  keyframe_observers |-> EmptyMap,
                  track_element_observers |-> EmptyMap,
                  clip_observers |-> EmptyMap])]
        w3 == Connect(w2, ges_layer, "clip-added", self, "LayerObserver._clipAddedCb")
        w4 == Connect(w3, ges_layer, "clip-removed", self, "LayerObserver._clipRemovedCb")
        w5 == Connect(w4, ges_layer, "notify::priority", self,
                      "LayerObserver.__layer_moved_cb")
    IN Call("ConnectClips", <<w5, self, get_clips(w, ges_layer)>>)

\* -------------------------------------------------------- TimelineObserver
\* TimelineObserver._connect_to_layer
TimelineObserver_connect_to_layer(w, ges_layer) ==
    IF w.exc # "" THEN w
    ELSE LET w1 == Call("Push", <<w, [kind |-> "LayerAdded", ges_layer |-> ges_layer]>>)
             layer_observer == w1.nid
             w2 == Call("LayerObserver_init", <<w1, ges_layer>>)
         IN IF w2.exc # "" THEN w2
            ELSE [w2 EXCEPT !.layer_observers = Put(@, ges_layer, layer_observer)]

\* TimelineObserver.__layer_added_cb
TimelineObserver_layer_added_cb(w, ges_layer) ==
    Call("TimelineObserver_connect_to_layer", <<w, ges_layer>>)

\* TimelineObserver.__layer_removed_cb
TimelineObserver_layer_removed_cb(w, ges_layer) ==
    Call("Push", <<w, [kind |-> "LayerRemoved", ges_layer |-> ges_layer]>>)

ConnectLayers(w, ls) ==
    IF ls = << >> THEN w
    ELSE Call("ConnectLayers", <<TimelineObserver_connect_to_layer(w, Head(ls)), Tail(ls)>>)

\* TimelineObserver.__init__
TimelineObserver_init(w) ==
    LET w1 == Call("ConnectLayers", <<w, Sorted(w.tlLayers)>>)
        w2 == Connect(w1, Timeline, "layer-added", Timeline,
                      "TimelineObserver.__layer_added_cb")
    IN Connect(w2, Timeline, "layer-removed", Timeline,
               "TimelineObserver.__layer_removed_cb")

\* --------------------------------------------------------- signal emission
\* The document part of the world.
Document(w) ==
    [tlLayers |-> w.tlLayers, prio |-> w.prio, lclips |-> w.lclips,
     clipObj |-> w.clipObj, elemObj |-> w.elemObj, csObj |-> w.csObj]

\* The world a callback that returned r leaves, d being the document it was
\* called on: a raised exception is reported and dropped.
Returned(d, r, cb) ==
    LET r1 == IF Document(r) = d THEN r ELSE Note(r, [t |-> "mutation", cb |-> cb])
    IN IF r.exc = "" THEN r1 ELSE [r1 EXCEPT !.errs = Append(@, r.exc), !.exc = ""]

\* One handler of a signal: the callback the connection names, called with the
\* emitting object and the signal's argument.  An exception raised in a
\* callback ends that callback only: the emission goes on.
\* A callback that leaves the document other than it found it is noted.
Callback(w, sub, obj, arg) ==
    LET cb == sub.cb
        rs == {CASE cb = "TimelineObserver.__layer_added_cb" ->
                     Call("TimelineObserver_layer_added_cb", <<w, arg>>)
               [] cb = "TimelineObserver.__layer_removed_cb" ->
                     Call("TimelineObserver_layer_removed_cb", <<w, arg>>)
               [] cb = "LayerObserver._clipAddedCb" ->
                     Call("LayerObserver_clipAddedCb", <<w, sub.obs, obj, arg>>)
               [] cb = "LayerObserver._clipRemovedCb" ->
                     Call("LayerObserver_clipRemovedCb", <<w, sub.obs, obj, arg>>)
               [] cb = "LayerObserver.__layer_moved_cb" ->
                     Call("LayerObserver_layer_moved_cb", <<w, sub.obs, obj>>)
               [] cb = "LayerObserver._clipTrackElementAddedCb" ->
                     Call("LayerObserver_clipTrackElementAddedCb", <<w, sub.obs, obj, arg>>)
               [] cb = "LayerObserver._clipTrackElementRemovedCb" ->
                     Call("LayerObserver_clipTrackElementRemovedCb", <<w, sub.obs, obj, arg>>)
               [] cb = "LayerObserver._controlBindingAddedCb" ->
                     Call("LayerObserver_controlBindingAddedCb", <<w, sub.obs, obj, arg>>)
               [] cb = "TimelineElementObserver._property_changed_cb" ->
                     Call("TimelineElementObserver_property_changed_cb", <<w, sub.obs, obj, arg>>)
               [] cb = "GObjectObserver._property_changed_cb" ->
                     Call("GObjectObserver_property_changed_cb", <<w, sub.obs, obj, arg>>)
               [] cb = "ControlSourceObserver._keyframe_added_cb" ->
                     Call("ControlSourceObserver_keyframe_added_cb", <<w, sub.obs, obj, arg>>)
               [] cb = "ControlSourceObserver._keyframe_moved_cb" ->
                     Call("ControlSourceObserver_keyframe_moved_cb", <<w, sub.obs, obj, arg>>)
               [] cb = "ControlSourceObserver._keyframe_removed_cb" ->
                     Call("ControlSourceObserver_keyframe_removed_cb", <<w, sub.obs, obj, arg>>)}
    IN CHOOSE y \in {Returned(d, r, cb) : d \in {Document(w)}, r \in rs} : TRUE

RunHandlers(w, hs, obj, arg) ==
    IF hs = << >> THEN w
    ELSE Call("RunHandlers", <<Callback(w, Head(hs), obj, arg), Tail(hs), obj, arg>>)

Handlers(w, obj, sig) ==
    LET idx == Sorted({i \in 1..Len(w.subs) :
                           w.subs[i].obj = obj /\ w.subs[i].sig = sig})
    IN [i \in 1..Len(idx) |-> w.subs[idx[i]]]

Emit(w, obj, sig, arg) ==
    Call("RunHandlers", <<Note(w, [t |-> "ev", sig |-> sig, obj |-> obj, arg |-> arg]),
                Handlers(w, obj, sig), obj, arg>>)

\* ------------------------------------------------- the document (GES, Gst)
\* Each operation changes the document and emits its signal before it
\* returns.  A layer keeps its clips when it leaves the timeline; a clip keeps
\* its track elements when it leaves its layer.  Track elements are created
\* when a clip first enters a layer of the timeline, and an auto transition
\* (an audio and a video transition clip) exists exactly while two clips of
\* one layer overlap: both are made after the clip-added notification of the
\* clip that causes them, and an auto transition is removed after the
\* clip-removed notification of the clip whose removal ends the overlap.

\* GES.Timeline.add_layer
add_layer(w, l) ==
    IF l \in w.tlLayers THEN w
    ELSE Call("Emit", <<[w EXCEPT !.tlLayers = @ \cup {l}], Timeline, "layer-added", l>>)

\* GES.Timeline.remove_layer
remove_layer(w, l) ==
    IF l \notin w.tlLayers THEN w
    ELSE Call("Emit", <<[w EXCEPT !.tlLayers = @ \ {l}], Timeline, "layer-removed", l>>)

\* ges_layer.props.priority = p
set_priority(w, l, p) ==
    IF w.prio[l] = p THEN w
    ELSE Call("Emit", <<Note([w EXCEPT !.prio[l] = p],
                             [t |-> "set", obj |-> l, prop |-> "priority",
                              old |-> w.prio[l], new |-> p]),
                        l, "notify::priority", None>>)

\* pipeline.commit_timeline
commit_timeline(w) == Note(w, [t |-> "commit"])

NewElement(kind, parent, asset, propNames) ==
    [kind |-> kind, parent |-> parent, asset |-> asset,
     props |-> [p \in propNames |-> 0], active |-> TRUE, bindings |-> EmptyMap]

\* GES.Container.add of a new element: child-added
AddChild(w, c, kind, asset, propNames) ==
    LET e == w.nid
        w1 == Alloc(w)
        w2 == [w1 EXCEPT !.elemObj = Put(@, e, NewElement(kind, c, asset, propNames)),
                         !.clipObj[c].children = @ \cup {e}]
    IN Call("Emit", <<w2, c, "child-added", e>>)

\* GES.Clip.add_asset: the new element is w.nid
add_asset(w, c, asset) == Call("AddChild", <<w, c, "BaseEffect", asset, ChildProps>>)

\* GES.Container.remove: child-removed; False when it is not a child
remove_child(w, c, e) ==
    IF e \notin w.clipObj[c].children THEN w
    ELSE Call("Emit", <<[w EXCEPT !.clipObj[c].children = @ \ {e},
                        !.elemObj[e].parent = None],
              c, "child-removed", e>>)

Overlap(w, a, b) ==
    /\ w.clipObj[a].start < w.clipObj[b].start + w.clipObj[b].duration
    /\ w.clipObj[b].start < w.clipObj[a].start + w.clipObj[a].duration

Max2(a, b) == IF a >= b THEN a ELSE b

Min2(a, b) == IF a <= b THEN a ELSE b

OverlapStart(w, a, b) == Max2(w.clipObj[a].start, w.clipObj[b].start)

OverlapDuration(w, a, b) ==
    Min2(w.clipObj[a].start + w.clipObj[a].duration,
         w.clipObj[b].start + w.clipObj[b].duration) - OverlapStart(w, a, b)

\* The other ordinary clips of the layer that overlap clip c.
Neighbours(w, l, c) ==
    {b \in w.lclips[l] \ {c} : ~IsTransitionClip(w, b) /\ Overlap(w, c, b)}

\* One auto transition clip with its one element.
CreateTransition(w, l, start, duration, kind) ==
    LET tc == w.nid
        w1 == Alloc(w)
        w2 == [w1 EXCEPT !.clipObj = Put(@, tc, [kind |-> "transition",
                                                  start |-> start,
                                                  duration |-> duration,
                                                  children |-> {},
                                                  layer |-> l]),
                         !.lclips[l] = @ \cup {tc}]
        w3 == Call("Emit", <<w2, l, "clip-added", tc>>)
    IN Call("AddChild", <<w3, tc, kind, "transition", TransitionProps>>)

CreateTransitions(w, l, c, bs) ==
    IF bs = << >> THEN w
    ELSE LET s == OverlapStart(w, c, Head(bs))
             d == OverlapDuration(w, c, Head(bs))
             w1 == Call("CreateTransition", <<w, l, s, d, "AudioTransition">>)
             w2 == Call("CreateTransition", <<w1, l, s, d, "VideoTransition">>)
         IN Call("CreateTransitions", <<w2, l, c, Tail(bs)>>)

\* GES.Layer.add_clip
add_clip(w, l, c) ==
    IF w.clipObj[c].layer # None THEN w
    ELSE LET w1 == Call("Emit", <<[w EXCEPT !.lclips[l] = @ \cup {c},
                                  !.clipObj[c].layer = l],
                        l, "clip-added", c>>)
         IN IF l \notin w.tlLayers THEN w1
            ELSE LET w2 == IF w1.clipObj[c].children # {} THEN w1
                           ELSE Call("AddChild", <<AddChild(w1, c, "AudioSource", "uri",
                                                  ChildProps),
                                         c, "VideoSource", "uri", ChildProps>>)
                 IN Call("CreateTransitions", <<w2, l, c, Sorted(Neighbours(w2, l, c))>>)

\* The auto transition clips of the layer that rest on clip c.
TransitionsOf(w, l, c) ==
    {tc \in w.lclips[l] :
        /\ IsTransitionClip(w, tc)
        /\ \E b \in Neighbours(w, l, c) :
              /\ w.clipObj[tc].start = OverlapStart(w, c, b)
              /\ w.clipObj[tc].duration = OverlapDuration(w, c, b)}

RemoveClips(w, l, cs) ==
    IF cs = << >> THEN w
    ELSE LET c == Head(cs)
             w1 == Call("Emit", <<[w EXCEPT !.lclips[l] = @ \ {c}], l, "clip-removed", c>>)
         IN Call("RemoveClips", <<[w1 EXCEPT !.clipObj[c].layer = None], l, Tail(cs)>>)

\* GES.Layer.remove_clip
remove_clip(w, l, c) ==
    IF c \notin w.lclips[l] THEN w
    ELSE Call("RemoveClips", <<w, l, <<c>> \o (IF l \in w.tlLayers
                                     THEN Sorted(TransitionsOf(w, l, c))
                                     ELSE << >>)>>)

\* GES.TrackElement.set_child_property: deep-notify
set_child_property(w, e, p, v) ==
    Call("Emit", <<Note([w EXCEPT !.elemObj[e].props[p] = v],
                        [t |-> "set", obj |-> e, prop |-> p,
                         old |-> w.elemObj[e].props[p], new |-> v]),
                   e, "deep-notify", p>>)

\* GObject.Object.set_property on a transition element: notify
set_property(w, e, p, v) ==
    Call("Emit", <<[w EXCEPT !.elemObj[e].props[p] = v], e, "notify", p>>)

\* GES.TrackElement.set_control_source: control-binding-added.  The source is
\* the caller's: one made for the binding (source = w.nid, a new
\* InterpolationControlSource without keyframes) or one that exists.
set_control_source(w, e, source, p) ==
    LET w1 == IF source \in DOMAIN w.csObj THEN w
              ELSE [Alloc(w) EXCEPT !.csObj = Put(@, source, EmptyMap)]
        w2 == [w1 EXCEPT !.elemObj[e].bindings = Put(@, p, source)]
    IN Call("Emit", <<w2, e, "control-binding-added",
                      [name |-> p, control_source |-> source]>>)

\* track_element.active = v: notify::active
set_active(w, e, v) ==
    Call("Emit", <<[w EXCEPT !.elemObj[e].active = v], e, "notify::active", None>>)

\* GES.TrackElement.remove_control_binding: control-binding-removed
remove_control_binding(w, e, p) ==
    IF p \notin DOMAIN w.elemObj[e].bindings THEN w
    ELSE Call("Emit", <<[w EXCEPT !.elemObj[e].bindings = Drop(@, p)], e,
              "control-binding-removed",
              [name |-> p, control_source |-> w.elemObj[e].bindings[p]]>>)

\* GstController.TimedValueControlSource.set: value-changed for a timestamp
\* that has a keyframe, value-added otherwise
control_source_set(w, cs, ts, v) ==
    Call("Emit", <<[w EXCEPT !.csObj[cs] = Put(@, ts, v)], cs,
         IF ts \in DOMAIN w.csObj[cs] THEN "value-changed" ELSE "value-added",
         [timestamp |-> ts, value |-> v]>>)

\* GstController.TimedValueControlSource.unset: value-removed
control_source_unset(w, cs, ts) ==
    IF ts \notin DOMAIN w.csObj[cs] THEN w
    ELSE Call("Emit", <<[w EXCEPT !.csObj[cs] = Drop(@, ts)], cs, "value-removed",
              [timestamp |-> ts, value |-> w.csObj[cs][ts]]>>)

\* A keyframe of the control source moves from timestamp ts0 to the free
\* timestamp ts1 and takes value v: value-changed, with the keyframe as it is
\* now (spec.md, ControlSourceObserver: "keyframe-moved").
keyframe_moved(w, cs, ts0, ts1, v) ==
    Call("Emit", <<Note([w EXCEPT !.csObj[cs] = Put(Drop(@, ts0), ts1, v)],
                        [t |-> "move", cs |-> cs, curves |-> w.csObj,
                         old |-> <<ts0, w.csObj[cs][ts0]>>, new |-> <<ts1, v>>]),
                   cs, "value-changed", [timestamp |-> ts1, value |-> v]>>)

\* -------------------------------------------------------------- the actions
\* do() and undo() of every action class: the world after the call, and the
\* action itself (an action is a mutable object).  An exception raised in
\* do()/undo() reaches the caller: the rest of the method does not run.
R(w, a) == [w |-> w, a |-> a]

\* TrackElementPropertyChanged.do
TrackElementPropertyChanged_do(w, a) ==
    R(Call("set_child_property", <<w, a.track_element, a.property_name, a.new_value>>), a)

\* TrackElementPropertyChanged.undo
TrackElementPropertyChanged_undo(w, a) ==
    R(Call("set_child_property", <<w, a.track_element, a.property_name, a.old_value>>), a)

\* PropertyChangedAction (pitivi.undo.undo) of a GObjectObserver
ObjectPropertyChanged_do(w, a) ==
    R(Call("set_property", <<w, auto_object(w, a.gobject), a.property_name, a.new_value>>), a)

ObjectPropertyChanged_undo(w, a) ==
    R(Call("set_property", <<w, auto_object(w, a.gobject), a.property_name, a.old_value>>), a)

PropOrder == <<"alpha", "qos">>

SetChildProps(w, e, values, names) ==
    IF names = << >> THEN w
    ELSE Call("SetChildProps", <<IF Head(names) \in DOMAIN values
                       THEN Call("set_child_property", <<w, e, Head(names), values[Head(names)]>>)
                       ELSE w,
                       e, values, Tail(names)>>)

\* TrackElementAction.add
TrackElementAction_add(w, a) ==
    LET e == w.nid
        w1 == Call("add_asset", <<w, a.clip, a.asset>>)
    IN R(Call("SetChildProps", <<w1, e, a.track_element_props, PropOrder>>),
         [a EXCEPT !.track_element = e])

\* TrackElementAction.remove
TrackElementAction_remove(w, a) ==
    IF a.track_element = None THEN R(Raise(w, "TypeError"), a)
    ELSE R(Call("remove_child", <<Note(w, [t |-> "remove", clip |-> a.clip,
                                          elem |-> a.track_element]),
                                  a.clip, a.track_element>>),
           [a EXCEPT !.track_element = None])

\* self.layer.get_timeline().get_asset().pipeline.commit_timeline()
LayerCommit(w, l) ==
    IF w.exc # "" THEN w
    ELSE IF l \notin w.tlLayers THEN Raise(w, "AttributeError")
    ELSE Call("commit_timeline", <<w>>)

\* ClipAdded.do
ClipAdded_do(w, a) == R(Call("LayerCommit", <<add_clip(w, a.layer, a.clip), a.layer>>), a)

\* A ClipAdded.undo that leaves the clip in its layer: what C14 rules out.
ClipAdded_undo_NoRemove(w, a) == R(Call("LayerCommit", <<w, a.layer>>), a)

\* ClipAdded.undo
ClipAdded_undo(w, a) == R(Call("LayerCommit", <<remove_clip(w, a.layer, a.clip), a.layer>>), a)

\* A find_video_transition that stops at the first transition clip of the
\* recorded start and duration, video element or not: what C26 rules out.
find_video_transition_FirstMatch(w, a) ==
    LET found == {c \in w.lclips[a.ges_layer] :
                     /\ IsTransitionClip(w, c)
                     /\ w.clipObj[c].start = a.start
                     /\ w.clipObj[c].duration = a.duration}
    IN IF found = {} THEN None ELSE get_video_element(w, Min(found))

\* TransitionClipAction.find_video_transition
find_video_transition(w, a) ==
    LET found == {c \in w.lclips[a.ges_layer] :
                     /\ IsTransitionClip(w, c)
                     /\ w.clipObj[c].start = a.start
                     /\ w.clipObj[c].duration = a.duration
                     /\ get_video_element(w, c) # None}
    IN IF found = {} THEN None ELSE get_video_element(w, Min(found))

\* TransitionClipAddedAction.do
TransitionClipAddedAction_do(w, a) ==
    LET track_element == find_video_transition(w, a)
    IN IF track_element = None THEN R(Raise(w, "AssertionError"), a)
       ELSE R(Call("update_object", <<w, a.track_element, track_element>>), a)

\* TransitionClipAddedAction.undo
TransitionClipAddedAction_undo(w, a) == R(w, a)

\* TransitionClipRemovedAction.do
TransitionClipRemovedAction_do(w, a) == R(w, a)

SetProperties(w, e, values, names) ==
    IF names = << >> THEN w
    ELSE Call("SetProperties", <<set_property(w, e, Head(names), values[Head(names)]),
                       e, values, Tail(names)>>)

\* A TransitionClipRemovedAction.undo that materializes the pipeline itself:
\* what C11 rules out.
TransitionClipRemovedAction_undo_Commits(w, a) ==
    LET track_element == find_video_transition(w, a)
    IN IF w.exc # "" \/ track_element = None THEN R(w, a)
       ELSE R(Call("commit_timeline", <<Call("SetProperties",
                     <<update_object(w, a.track_element, track_element),
                       track_element, a.properties, TRANSITION_PROPS>>)>>), a)

\* TransitionClipRemovedAction.undo
TransitionClipRemovedAction_undo(w, a) ==
    LET track_element == find_video_transition(w, a)
    IN IF w.exc # "" \/ track_element = None THEN R(w, a)
       ELSE R(Call("SetProperties", <<update_object(w, a.track_element, track_element),
                            track_element, a.properties, TRANSITION_PROPS>>), a)

UndoTransitionsRemoved(w, as) ==
    IF as = << >> THEN w
    ELSE Call("UndoTransitionsRemoved", <<TransitionClipRemovedAction_undo(w, Head(as)).w,
                                Tail(as)>>)

\* ClipRemoved.do
ClipRemoved_do(w, a) == R(Call("LayerCommit", <<remove_clip(w, a.layer, a.clip), a.layer>>), a)

\* ClipRemoved.undo
ClipRemoved_undo(w, a) ==
    R(Call("UndoTransitionsRemoved", <<LayerCommit(Call("add_clip", <<w, a.layer, a.clip>>), a.layer),
                             a.transition_removed_actions>>), a)

\* LayerAdded.do
LayerAdded_do(w, a) == R(Call("add_layer", <<w, a.ges_layer>>), a)

\* A LayerAdded.undo that leaves the layer in the timeline: what C9 rules out.
LayerAdded_undo_NoRemove(w, a) == R(Call("commit_timeline", <<w>>), a)

\* LayerAdded.undo
LayerAdded_undo(w, a) == R(Call("commit_timeline", <<remove_layer(w, a.ges_layer)>>), a)

\* LayerRemoved.do
LayerRemoved_do(w, a) == R(Call("commit_timeline", <<remove_layer(w, a.ges_layer)>>), a)

\* LayerRemoved.undo
LayerRemoved_undo(w, a) == R(Call("add_layer", <<w, a.ges_layer>>), a)

\* LayerMoved.do
LayerMoved_do(w, a) == R(Call("set_priority", <<w, a.ges_layer, a.priority>>), a)

\* LayerMoved.undo
LayerMoved_undo(w, a) == R(Call("set_priority", <<w, a.ges_layer, a.old_priority>>), a)

\* KeyframeAddedAction.do
KeyframeAddedAction_do(w, a) ==
    R(Call("control_source_set", <<w, a.control_source, a.timestamp, a.value>>), a)

\* KeyframeAddedAction.undo
KeyframeAddedAction_undo(w, a) ==
    R(Call("control_source_unset", <<w, a.control_source, a.timestamp>>), a)

\* KeyframeRemovedAction.do
KeyframeRemovedAction_do(w, a) ==
    R(Call("control_source_unset", <<w, a.control_source, a.timestamp>>), a)

\* KeyframeRemovedAction.undo
KeyframeRemovedAction_undo(w, a) ==
    R(Call("control_source_set", <<w, a.control_source, a.timestamp, a.value>>), a)

\* KeyframeChangedAction._applySnapshot
KeyframeChangedAction_applySnapshot(w, a, snapshot) ==
    R(Call("control_source_set", <<w, a.control_source, snapshot[1], snapshot[2]>>), a)

\* KeyframeChangedAction.do
KeyframeChangedAction_do(w, a) ==
    Call("KeyframeChangedAction_applySnapshot", <<w, a, a.new_snapshot>>)

\* KeyframeChangedAction.undo
KeyframeChangedAction_undo(w, a) ==
    Call("KeyframeChangedAction_applySnapshot", <<w, a, a.old_snapshot>>)

\* EffectAddedAction / EffectRemovedAction
EffectAddedAction_do(w, a) == Call("TrackElementAction_add", <<w, a>>)

EffectAddedAction_undo(w, a) == Call("TrackElementAction_remove", <<w, a>>)

EffectRemovedAction_do(w, a) == Call("TrackElementAction_remove", <<w, a>>)

EffectRemovedAction_undo(w, a) == Call("TrackElementAction_add", <<w, a>>)

\* An ActivePropertyChanged.do that keeps self.active: what C20 rules out.
ActivePropertyChanged_do_NoFlip(w, a) ==
    IF a.effect_action.track_element = None THEN R(Raise(w, "AttributeError"), a)
    ELSE R(Call("set_active", <<w, a.effect_action.track_element, a.active>>), a)

\* ActivePropertyChanged.do
ActivePropertyChanged_do(w, a) ==
    IF a.effect_action.track_element = None THEN R(Raise(w, "AttributeError"), a)
    ELSE R(Call("set_active", <<w, a.effect_action.track_element, a.active>>),
           [a EXCEPT !.active = ~@])

\* ActivePropertyChanged.undo
ActivePropertyChanged_undo(w, a) ==
    IF a.effect_action.track_element = None THEN R(Raise(w, "AttributeError"), a)
    ELSE R(Call("set_active", <<w, a.effect_action.track_element, a.active>>),
           [a EXCEPT !.active = ~@])

\* action.do()
Do(w, a) ==
    CASE a.kind = "PropertyChanged" -> Call("TrackElementPropertyChanged_do", <<w, a>>)
      [] a.kind = "ObjectPropertyChanged" -> Call("ObjectPropertyChanged_do", <<w, a>>)
      [] a.kind = "EffectAdded" -> Call("EffectAddedAction_do", <<w, a>>)
      [] a.kind = "EffectRemoved" -> Call("EffectRemovedAction_do", <<w, a>>)
      [] a.kind = "ClipAdded" -> Call("ClipAdded_do", <<w, a>>)
      [] a.kind = "ClipRemoved" -> Call("ClipRemoved_do", <<w, a>>)
      [] a.kind = "TransitionAdded" -> Call("TransitionClipAddedAction_do", <<w, a>>)
      [] a.kind = "TransitionRemoved" -> Call("TransitionClipRemovedAction_do", <<w, a>>)
      [] a.kind = "LayerAdded" -> Call("LayerAdded_do", <<w, a>>)
      [] a.kind = "LayerRemoved" -> Call("LayerRemoved_do", <<w, a>>)
      [] a.kind = "LayerMoved" -> Call("LayerMoved_do", <<w, a>>)
      [] a.kind = "KeyframeAdded" -> Call("KeyframeAddedAction_do", <<w, a>>)
      [] a.kind = "KeyframeRemoved" -> Call("KeyframeRemovedAction_do", <<w, a>>)
      [] a.kind = "KeyframeChanged" -> Call("KeyframeChangedAction_do", <<w, a>>)
      [] a.kind = "ActiveToggled" -> Call("ActivePropertyChanged_do", <<w, a>>)
      [] a.kind = "ControlBindingSet" -> R(w, a)

\* action.undo()
Undo(w, a) ==
    CASE a.kind = "PropertyChanged" -> Call("TrackElementPropertyChanged_undo", <<w, a>>)
      [] a.kind = "ObjectPropertyChanged" -> Call("ObjectPropertyChanged_undo", <<w, a>>)
      [] a.kind = "EffectAdded" -> Call("EffectAddedAction_undo", <<w, a>>)
      [] a.kind = "EffectRemoved" -> Call("EffectRemovedAction_undo", <<w, a>>)
      [] a.kind = "ClipAdded" -> Call("ClipAdded_undo", <<w, a>>)
      [] a.kind = "ClipRemoved" -> Call("ClipRemoved_undo", <<w, a>>)
      [] a.kind = "TransitionAdded" -> Call("TransitionClipAddedAction_undo", <<w, a>>)
      [] a.kind = "TransitionRemoved" -> Call("TransitionClipRemovedAction_undo", <<w, a>>)
      [] a.kind = "LayerAdded" -> Call("LayerAdded_undo", <<w, a>>)
      [] a.kind = "LayerRemoved" -> Call("LayerRemoved_undo", <<w, a>>)
      [] a.kind = "LayerMoved" -> Call("LayerMoved_undo", <<w, a>>)
      [] a.kind = "KeyframeAdded" -> Call("KeyframeAddedAction_undo", <<w, a>>)
      [] a.kind = "KeyframeRemoved" -> Call("KeyframeRemovedAction_undo", <<w, a>>)
      [] a.kind = "KeyframeChanged" -> Call("KeyframeChangedAction_undo", <<w, a>>)
      [] a.kind = "ActiveToggled" -> Call("ActivePropertyChanged_undo", <<w, a>>)
      [] a.kind = "ControlBindingSet" -> R(w, a)

\* ------------------------------------------------- scripted-edit records
\* asScenarioAction() of every action class: the Gst.Structure as a record,
\* NoRecord for None.  ui is what the method reads of the application:
\* whether the timeline has a ui, timeline.ui.editing_context, and
\* layer.splitting_object.
NoRecord == [name |-> "None"]

UiContexts ==
    [ui : {"absent", "present"}, editing_context : {None, 1},
     splitting_object : BOOLEAN]

\* ClipAdded.asScenarioAction; a layer outside the timeline has no timeline
ClipAdded_asScenarioAction(w, a, ui) ==
    IF ui.splitting_object THEN NoRecord
    ELSE IF /\ a.layer \in w.tlLayers
            /\ ui.ui = "present"
            /\ ui.editing_context # None THEN NoRecord
    ELSE [name |-> "add-clip", clip |-> a.clip,
          layer_priority |-> w.prio[a.layer],
          start |-> w.clipObj[a.clip].start,
          duration |-> w.clipObj[a.clip].duration]

\* ClipRemoved.asScenarioAction
ClipRemoved_asScenarioAction(w, a, ui) ==
    IF /\ a.layer \in w.tlLayers
       /\ ui.ui = "present"
       /\ ui.editing_context # None THEN NoRecord
    ELSE [name |-> "remove-clip", clip |-> a.clip]

\* asScenarioAction of the other classes; a class that does not define it
\* has the one of UndoableAction (pitivi.undo.undo), which renders nothing.
asScenarioAction(w, a, ui) ==
    CASE a.kind = "ClipAdded" -> ClipAdded_asScenarioAction(w, a, ui)
      [] a.kind = "ClipRemoved" -> ClipRemoved_asScenarioAction(w, a, ui)
      [] a.kind = "PropertyChanged" ->
             [name |-> "set-child-property", element |-> a.track_element,
              property |-> a.property_name, value |-> a.new_value]
      [] a.kind = "EffectAdded" ->
             IF a.track_element = None THEN [name |-> "AttributeError"]
             ELSE [name |-> "container-add-child", container |-> a.clip,
                   asset |-> w.elemObj[a.track_element].asset]
      [] a.kind = "EffectRemoved" ->
             IF a.track_element = None THEN [name |-> "AttributeError"]
             ELSE [name |-> "container-remove-child", container |-> a.clip,
                   child |-> a.track_element]
      [] a.kind = "LayerAdded" ->
             [name |-> "add-layer", priority |-> w.prio[a.ges_layer]]
      [] a.kind = "LayerRemoved" ->
             [name |-> "remove-layer", priority |-> w.prio[a.ges_layer]]
      [] a.kind = "LayerMoved" ->
             [name |-> "move-layer", priority |-> w.prio[a.ges_layer]]
      [] a.kind = "KeyframeAdded" ->
             [name |-> "add-keyframe", info |-> a.action_info,
              timestamp |-> a.timestamp, value |-> a.value]
      [] a.kind = "KeyframeRemoved" ->
             [name |-> "remove-keyframe", info |-> a.action_info,
              timestamp |-> a.timestamp, value |-> a.value]
      [] a.kind = "ControlBindingSet" ->
             [name |-> "set-control-source", info |-> a.action_info]
      [] OTHER -> NoRecord

\* ------------------------------------------------------------ method calls
\* Call(f, x) is the call of operator f with the arguments x: every call of
\* one modelled method by another goes through it.
Call(f, x) ==
    CASE f = "Push" ->
             Push(x[1], x[2])
      [] f = "update_object" ->
             update_object(x[1], x[2], x[3])
      [] f = "disconnect_by_func" ->
             disconnect_by_func(x[1], x[2], x[3], x[4])
      [] f = "GObjectObserver_init" ->
             GObjectObserver_init(x[1], x[2], x[3])
      [] f = "GObjectObserver_release" ->
             GObjectObserver_release(x[1], x[2])
      [] f = "GObjectObserver_property_changed_cb" ->
             GObjectObserver_property_changed_cb(x[1], x[2], x[3], x[4])
      [] f = "TimelineElementObserver_init" ->
             TimelineElementObserver_init(x[1], x[2])
      [] f = "TimelineElementObserver_release" ->
             TimelineElementObserver_release(x[1], x[2])
      [] f = "TimelineElementObserver_property_changed_cb" ->
             TimelineElementObserver_property_changed_cb(x[1], x[2], x[3], x[4])
      [] f = "ControlSourceObserver_init" ->
             ControlSourceObserver_init(x[1], x[2], x[3])
      [] f = "ControlSourceObserver_release" ->
             ControlSourceObserver_release(x[1], x[2])
      [] f = "ControlSourceObserver_keyframe_added_cb" ->
             ControlSourceObserver_keyframe_added_cb(x[1], x[2], x[3], x[4])
      [] f = "ControlSourceObserver_keyframe_moved_cb" ->
             ControlSourceObserver_keyframe_moved_cb(x[1], x[2], x[3], x[4])
      [] f = "ControlSourceObserver_keyframe_removed_cb" ->
             ControlSourceObserver_keyframe_removed_cb(x[1], x[2], x[3], x[4])
      [] f = "LayerObserver_connectToControlSource" ->
             LayerObserver_connectToControlSource(x[1], x[2], x[3], x[4])
      [] f = "LayerObserver_disconnectFromControlSource" ->
             LayerObserver_disconnectFromControlSource(x[1], x[2], x[3])
      [] f = "ConnectBindings" ->
             ConnectBindings(x[1], x[2], x[3], x[4])
      [] f = "DisconnectBindings" ->
             DisconnectBindings(x[1], x[2], x[3])
      [] f = "LayerObserver_connectToTrackElement" ->
             LayerObserver_connectToTrackElement(x[1], x[2], x[3])
      [] f = "LayerObserver_disconnectFromTrackElement" ->
             LayerObserver_disconnectFromTrackElement(x[1], x[2], x[3])
      [] f = "ConnectChildren" ->
             ConnectChildren(x[1], x[2], x[3])
      [] f = "DisconnectChildren" ->
             DisconnectChildren(x[1], x[2], x[3])
      [] f = "LayerObserver_connectToClip" ->
             LayerObserver_connectToClip(x[1], x[2], x[3])
      [] f = "LayerObserver_disconnectFromClip" ->
             LayerObserver_disconnectFromClip(x[1], x[2], x[3])
      [] f = "LayerObserver_controlBindingAddedCb" ->
             LayerObserver_controlBindingAddedCb(x[1], x[2], x[3], x[4])
      [] f = "LayerObserver_clipAddedCb" ->
             LayerObserver_clipAddedCb(x[1], x[2], x[3], x[4])
      [] f = "LayerObserver_clipRemovedCb" ->
             LayerObserver_clipRemovedCb(x[1], x[2], x[3], x[4])
      [] f = "LayerObserver_clipTrackElementAddedCb" ->
             LayerObserver_clipTrackElementAddedCb(x[1], x[2], x[3], x[4])
      [] f = "LayerObserver_clipTrackElementRemovedCb" ->
             LayerObserver_clipTrackElementRemovedCb(x[1], x[2], x[3], x[4])
      [] f = "LayerObserver_layer_moved_cb" ->
             LayerObserver_layer_moved_cb(x[1], x[2], x[3])
      [] f = "ConnectClips" ->
             ConnectClips(x[1], x[2], x[3])
      [] f = "LayerObserver_init" ->
             LayerObserver_init(x[1], x[2])
      [] f = "TimelineObserver_connect_to_layer" ->
             TimelineObserver_connect_to_layer(x[1], x[2])
      [] f = "TimelineObserver_layer_added_cb" ->
             TimelineObserver_layer_added_cb(x[1], x[2])
      [] f = "TimelineObserver_layer_removed_cb" ->
             TimelineObserver_layer_removed_cb(x[1], x[2])
      [] f = "ConnectLayers" ->
             ConnectLayers(x[1], x[2])
      [] f = "TimelineObserver_init" ->
             TimelineObserver_init(x[1])
      [] f = "Callback" ->
             Callback(x[1], x[2], x[3], x[4])
      [] f = "RunHandlers" ->
             RunHandlers(x[1], x[2], x[3], x[4])
      [] f = "Emit" ->
             Emit(x[1], x[2], x[3], x[4])
      [] f = "add_layer" ->
             add_layer(x[1], x[2])
      [] f = "remove_layer" ->
             remove_layer(x[1], x[2])
      [] f = "set_priority" ->
             set_priority(x[1], x[2], x[3])
      [] f = "commit_timeline" ->
             commit_timeline(x[1])
      [] f = "AddChild" ->
             AddChild(x[1], x[2], x[3], x[4], x[5])
      [] f = "add_asset" ->
             add_asset(x[1], x[2], x[3])
      [] f = "remove_child" ->
             remove_child(x[1], x[2], x[3])
      [] f = "CreateTransition" ->
             CreateTransition(x[1], x[2], x[3], x[4], x[5])
      [] f = "CreateTransitions" ->
             CreateTransitions(x[1], x[2], x[3], x[4])
      [] f = "add_clip" ->
             add_clip(x[1], x[2], x[3])
      [] f = "RemoveClips" ->
             RemoveClips(x[1], x[2], x[3])
      [] f = "remove_clip" ->
             remove_clip(x[1], x[2], x[3])
      [] f = "set_child_property" ->
             set_child_property(x[1], x[2], x[3], x[4])
      [] f = "set_property" ->
             set_property(x[1], x[2], x[3], x[4])
      [] f = "set_control_source" ->
             set_control_source(x[1], x[2], x[3], x[4])
      [] f = "set_active" ->
             set_active(x[1], x[2], x[3])
      [] f = "ActivePropertyChanged_do" ->
             ActivePropertyChanged_do(x[1], x[2])
      [] f = "ActivePropertyChanged_undo" ->
             ActivePropertyChanged_undo(x[1], x[2])
      [] f = "LayerObserver_trackElementActiveChangedCb" ->
             LayerObserver_trackElementActiveChangedCb(x[1], x[2], x[3], x[4], x[5])
      [] f = "remove_control_binding" ->
             remove_control_binding(x[1], x[2], x[3])
      [] f = "control_source_set" ->
             control_source_set(x[1], x[2], x[3], x[4])
      [] f = "keyframe_moved" ->
             keyframe_moved(x[1], x[2], x[3], x[4], x[5])
      [] f = "control_source_unset" ->
             control_source_unset(x[1], x[2], x[3])
      [] f = "TrackElementPropertyChanged_do" ->
             TrackElementPropertyChanged_do(x[1], x[2])
      [] f = "TrackElementPropertyChanged_undo" ->
             TrackElementPropertyChanged_undo(x[1], x[2])
      [] f = "ObjectPropertyChanged_do" ->
             ObjectPropertyChanged_do(x[1], x[2])
      [] f = "ObjectPropertyChanged_undo" ->
             ObjectPropertyChanged_undo(x[1], x[2])
      [] f = "SetChildProps" ->
             SetChildProps(x[1], x[2], x[3], x[4])
      [] f = "TrackElementAction_add" ->
             TrackElementAction_add(x[1], x[2])
      [] f = "TrackElementAction_remove" ->
             TrackElementAction_remove(x[1], x[2])
      [] f = "LayerCommit" ->
             LayerCommit(x[1], x[2])
      [] f = "ClipAdded_do" ->
             ClipAdded_do(x[1], x[2])
      [] f = "ClipAdded_undo" ->
             ClipAdded_undo(x[1], x[2])
      [] f = "TransitionClipAddedAction_do" ->
             TransitionClipAddedAction_do(x[1], x[2])
      [] f = "TransitionClipAddedAction_undo" ->
             TransitionClipAddedAction_undo(x[1], x[2])
      [] f = "TransitionClipRemovedAction_do" ->
             TransitionClipRemovedAction_do(x[1], x[2])
      [] f = "SetProperties" ->
             SetProperties(x[1], x[2], x[3], x[4])
      [] f = "TransitionClipRemovedAction_undo" ->
             TransitionClipRemovedAction_undo(x[1], x[2])
      [] f = "UndoTransitionsRemoved" ->
             UndoTransitionsRemoved(x[1], x[2])
      [] f = "ClipRemoved_do" ->
             ClipRemoved_do(x[1], x[2])
      [] f = "ClipRemoved_undo" ->
             ClipRemoved_undo(x[1], x[2])
      [] f = "LayerAdded_do" ->
             LayerAdded_do(x[1], x[2])
      [] f = "LayerAdded_undo" ->
             LayerAdded_undo(x[1], x[2])
      [] f = "LayerRemoved_do" ->
             LayerRemoved_do(x[1], x[2])
      [] f = "LayerRemoved_undo" ->
             LayerRemoved_undo(x[1], x[2])
      [] f = "LayerMoved_do" ->
             LayerMoved_do(x[1], x[2])
      [] f = "LayerMoved_undo" ->
             LayerMoved_undo(x[1], x[2])
      [] f = "KeyframeAddedAction_do" ->
             KeyframeAddedAction_do(x[1], x[2])
      [] f = "KeyframeAddedAction_undo" ->
             KeyframeAddedAction_undo(x[1], x[2])
      [] f = "KeyframeRemovedAction_do" ->
             KeyframeRemovedAction_do(x[1], x[2])
      [] f = "KeyframeRemovedAction_undo" ->
             KeyframeRemovedAction_undo(x[1], x[2])
      [] f = "KeyframeChangedAction_applySnapshot" ->
             KeyframeChangedAction_applySnapshot(x[1], x[2], x[3])
      [] f = "KeyframeChangedAction_do" ->
             KeyframeChangedAction_do(x[1], x[2])
      [] f = "KeyframeChangedAction_undo" ->
             KeyframeChangedAction_undo(x[1], x[2])
      [] f = "EffectAddedAction_do" ->
             EffectAddedAction_do(x[1], x[2])
      [] f = "EffectAddedAction_undo" ->
             EffectAddedAction_undo(x[1], x[2])
      [] f = "EffectRemovedAction_do" ->
             EffectRemovedAction_do(x[1], x[2])
      [] f = "EffectRemovedAction_undo" ->
             EffectRemovedAction_undo(x[1], x[2])
      [] f = "Do" ->
             Do(x[1], x[2])
      [] f = "Undo" ->
             Undo(x[1], x[2])

\* ------------------------------------------------- views of the document
\* What an editor can observe of a track element.
ElemView(w, e) ==
    [kind |-> w.elemObj[e].kind, asset |-> w.elemObj[e].asset,
     props |-> w.elemObj[e].props, active |-> w.elemObj[e].active,
     bindings |-> [p \in DOMAIN w.elemObj[e].bindings |->
                      w.csObj[w.elemObj[e].bindings[p]]]]

\* An auto transition has no identity of its own.
TransitionView(w, tc) ==
    [start |-> w.clipObj[tc].start, duration |-> w.clipObj[tc].duration,
     elements |-> {ElemView(w, e) : e \in w.clipObj[tc].children}]

Effects(w, c) == {e \in w.clipObj[c].children : w.elemObj[e].kind = "BaseEffect"}

\* The clips of a layer of the timeline; a layer outside the timeline, and a
\* clip outside every such layer, are not part of the document.
DocClips(w, l) ==
    IF l \in w.tlLayers THEN {c \in w.lclips[l] : ~IsTransitionClip(w, c)} ELSE {}

DocTransitions(w, l) ==
    IF l \in w.tlLayers
    THEN {TransitionView(w, tc) : tc \in {c \in w.lclips[l] : IsTransitionClip(w, c)}}
    ELSE {}

InDoc(w, c) == \E l \in Layers : c \in DocClips(w, l)

\* The document with the identity of every layer, clip and track element.
DocView(w) ==
    [layers |-> w.tlLayers,
     prio |-> [l \in w.tlLayers |-> w.prio[l]],
     clips |-> [l \in Layers |-> DocClips(w, l)],
     transitions |-> [l \in Layers |-> DocTransitions(w, l)],
     children |-> [c \in {d \in UriClips : InDoc(w, d)} |->
         [e \in w.clipObj[c].children |-> ElemView(w, e)]]]

\* The same, with an effect known by its asset and values only.
LooseDocView(w) ==
    [layers |-> w.tlLayers,
     prio |-> [l \in w.tlLayers |-> w.prio[l]],
     clips |-> [l \in Layers |-> DocClips(w, l)],
     transitions |-> [l \in Layers |-> DocTransitions(w, l)],
     sources |-> [c \in {d \in UriClips : InDoc(w, d)} |->
         [e \in w.clipObj[c].children \ Effects(w, c) |-> ElemView(w, e)]],
     effects |-> [c \in {d \in UriClips : InDoc(w, d)} |->
         {ElemView(w, e) : e \in Effects(w, c)}],
     nEffects |-> [c \in {d \in UriClips : InDoc(w, d)} |->
         Cardinality(Effects(w, c))]]

\* ------------------------------------------------------------------- steps
\* The world after a step becomes the state; an exception still in flight
\* (one do()/undo() raised) is recorded with those of the callbacks.
Apply(w) ==
    /\ tlLayers' = w.tlLayers
    /\ prio' = w.prio
    /\ lclips' = w.lclips
    /\ clipObj' = w.clipObj
    /\ elemObj' = w.elemObj
    /\ csObj' = w.csObj
    /\ nid' = w.nid
    /\ layer_observers' = w.layer_observers
    /\ obsObj' = w.obsObj
    /\ subs' = w.subs
    /\ log' = w.log
    /\ updates' = w.updates
    /\ hist' = w.hist
    /\ errs' = IF w.exc = "" THEN w.errs ELSE Append(w.errs, w.exc)
    /\ doc0' = doc0
    /\ gnome' = gnome

\* An edit drops what could be redone.
EditWorld ==
    [World EXCEPT !.log = [i \in DOMAIN log |->
                              IF log[i].st = "undone"
                              THEN [log[i] EXCEPT !.st = "dead"] ELSE log[i]]]

\* The layers of the timeline and the clips of every layer.
Pre == [layers |-> tlLayers, clips |-> lclips]

\* tracked: the edit is one whose action undoes it (a control binding set
\* and a transition property are not).  phase stays "edit" while every edit
\* so far was tracked and pushed an action.
Edit(w, name, obj, tracked) ==
    /\ nEdit < (IF name = "SetChildProperty" /\ last.op = "RemoveControlBinding"
                THEN MaxEdits + MaxLateSets ELSE MaxEdits)
    /\ Apply(w)
    /\ last' = [op |-> name, obj |-> obj, idx |-> 0, kind |-> "", rt |-> FALSE,
                n0 |-> Len(log), pre |-> Pre]
    /\ rtDoc' = None
    /\ editDoc' = LooseDocView(w)
    /\ phase' = IF phase = "edit" /\ tracked /\ Len(w.log) > Len(log)
                THEN "edit" ELSE "mixed"
    /\ nEdit' = nEdit + 1
    /\ nReplay' = nReplay

AddLayer(l) ==
    /\ l \notin tlLayers
    /\ Edit(Call("add_layer", <<EditWorld, l>>), "AddLayer", l, TRUE)

RemoveLayer(l) ==
    /\ l \in tlLayers
    /\ Edit(Call("remove_layer", <<EditWorld, l>>), "RemoveLayer", l, TRUE)

MoveLayer(l, p) ==
    /\ prio[l] # p
    /\ Edit(Call("set_priority", <<EditWorld, l, p>>), "MoveLayer", l, TRUE)

AddClip(l, c) ==
    /\ l \in tlLayers
    /\ clipObj[c].layer = None
    /\ Edit(Call("add_clip", <<EditWorld, l, c>>), "AddClip", c, TRUE)

RemoveClip(l, c) ==
    /\ l \in tlLayers
    /\ c \in lclips[l]
    /\ Edit(Call("remove_clip", <<EditWorld, l, c>>), "RemoveClip", c, TRUE)

AddEffect(c) ==
    /\ clipObj[c].children # {}
    /\ Effects(World, c) = {}
    /\ Edit(Call("add_asset", <<EditWorld, c, "effect">>), "AddEffect", c, TRUE)

RemoveEffect(c, e) ==
    /\ e \in Effects(World, c)
    /\ Edit(Call("remove_child", <<EditWorld, c, e>>), "RemoveEffect", e, TRUE)

SetChildProperty(e, p, v) ==
    /\ e \in DOMAIN elemObj
    /\ elemObj[e].kind \in {"BaseEffect", "VideoSource", "AudioSource"}
    /\ elemObj[e].props[p] # v
    /\ Edit(Call("set_child_property", <<EditWorld, e, p, v>>), "SetChildProperty", e, TRUE)

SetControlBinding(e, p, source) ==
    /\ e \in DOMAIN elemObj
    /\ elemObj[e].kind \in {"BaseEffect", "VideoSource", "AudioSource"}
    /\ p \notin DOMAIN elemObj[e].bindings
    /\ Edit(Call("set_control_source", <<EditWorld, e, source, p>>),
            "SetControlBinding", e, FALSE)

SetActive(e, v) ==
    /\ e \in DOMAIN elemObj
    /\ elemObj[e].kind = "BaseEffect"
    /\ elemObj[e].active # v
    /\ Edit(Call("set_active", <<EditWorld, e, v>>), "SetActive", e, FALSE)

RemoveControlBinding(e, p) ==
    /\ e \in DOMAIN elemObj
    /\ p \in DOMAIN elemObj[e].bindings
    /\ Edit(Call("remove_control_binding", <<EditWorld, e, p>>), "RemoveControlBinding", e, FALSE)

SetKeyframe(cs, ts, v) ==
    /\ cs \in DOMAIN csObj
    /\ ts \in DOMAIN csObj[cs] => csObj[cs][ts] # v
    /\ Edit(Call("control_source_set", <<EditWorld, cs, ts, v>>), "SetKeyframe", cs, TRUE)

UnsetKeyframe(cs, ts) ==
    /\ cs \in DOMAIN csObj
    /\ ts \in DOMAIN csObj[cs]
    /\ Edit(Call("control_source_unset", <<EditWorld, cs, ts>>), "UnsetKeyframe", cs, TRUE)

SetTransitionProperty(e, p, v) ==
    /\ e \in DOMAIN elemObj
    /\ elemObj[e].kind = "VideoTransition"
    /\ elemObj[e].props[p] # v
    /\ Edit(Call("set_property", <<EditWorld, e, p, v>>), "SetTransitionProperty", e, FALSE)

\* The entries undo and redo walk: those the edits pushed.
DoneEdits == {i \in 1..Len(log) : log[i].src = "edit" /\ log[i].st = "done"}

UndoneEdits == {i \in 1..Len(log) : log[i].src = "edit" /\ log[i].st = "undone"}

Max(S) == CHOOSE x \in S : \A y \in S : x >= y

ReplayWorld == [World EXCEPT !.mode = "replay"]

Replayed(r, i, st) == [r.w EXCEPT !.log[i].a = r.a, !.log[i].st = st]

\* UndoableActionLog.undo: undo() of the latest done action
UndoStep ==
    /\ nReplay < MaxReplay
    /\ DoneEdits # {}
    /\ LET i == Max(DoneEdits)
       IN /\ Apply(Replayed(Call("Undo", <<ReplayWorld, log[i].a>>), i, "undone"))
          /\ last' = [op |-> "undo", obj |-> None, idx |-> i,
                      kind |-> log[i].a.kind,
                      rt |-> (last.op = "redo" /\ last.idx = i),
                      n0 |-> Len(log), pre |-> Pre]
          /\ rtDoc' = IF last.op = "redo" /\ last.idx = i THEN rtDoc ELSE None
    /\ phase' = IF phase \in {"edit", "undo"} THEN "undo" ELSE "mixed"
    /\ editDoc' = editDoc
    /\ nReplay' = nReplay + 1
    /\ nEdit' = nEdit

\* UndoableActionLog.redo: do() of the earliest undone action
RedoStep ==
    /\ nReplay < MaxReplay
    /\ UndoneEdits # {}
    /\ LET i == Min(UndoneEdits)
       IN /\ Apply(Replayed(Call("Do", <<ReplayWorld, log[i].a>>), i, "done"))
          /\ last' = [op |-> "redo", obj |-> None, idx |-> i,
                      kind |-> log[i].a.kind, rt |-> FALSE, n0 |-> Len(log),
                      pre |-> Pre]
    /\ rtDoc' = DocView(World)
    /\ phase' = IF (phase = "undo" /\ DoneEdits = {}) \/ phase = "redo"
                THEN "redo" ELSE "mixed"
    /\ editDoc' = editDoc
    /\ nReplay' = nReplay + 1
    /\ nEdit' = nEdit

\* ------------------------------------------------- pitivi.utils.system
\* The GnomeSystem object and the session manager it talks to.  A key is a
\* string; NoKey is None given as the key.  A cookie is << >> for None and
\* <<n>> for the number n the session manager returned.
Keys == {"render", "preview"}

NoKey == "None"

COOKIE_NONE == 0

COOKIE_SCREENSAVER == 1

COOKIE_SLEEP == 2

NoCookie == << >>

\* key in list_
IsIn(list_, key) == \E i \in 1..Len(list_) : list_[i] = key

\* list_.remove(key)
Remove(list_, key) ==
    LET i == CHOOSE j \in 1..Len(list_) : list_[j] = key /\ \A k \in 1..(j - 1) : list_[k] # key
    IN [k \in 1..(Len(list_) - 1) |-> IF k < i THEN list_[k] ELSE list_[k + 1]]

\* Python's self.cookie != COOKIE_NONE: None is not equal to any number
CookieNotEqual(cookie, n) == IF cookie = NoCookie THEN TRUE ELSE cookie[1] # n

\* System._reset
System_reset(s) == [s EXCEPT !.sleep_keys = << >>, !.screensaver_keys = << >>]

\* System._isInhibited
System_isInhibited(list_, key) == IF key = NoKey THEN list_ # << >> ELSE IsIn(list_, key)

\* System.sleepIsInhibited, System.screensaverIsInhibited
sleepIsInhibited(s, key) == System_isInhibited(s.sleep_keys, key)

screensaverIsInhibited(s, key) == System_isInhibited(s.screensaver_keys, key)

\* org.gnome.SessionManager.Inhibit: a new cookie
session_Inhibit(s) ==
    [s EXCEPT !.issued = @ + 1,
              !.outstanding = @ \cup {s.issued + 1},
              !.dbus = Append(@, [method |-> "Inhibit", cookie |-> <<s.issued + 1>>,
                                  held |-> s.outstanding])]

\* org.gnome.SessionManager.Uninhibit; None cannot be sent as a cookie: the
\* call raises TypeError
session_Uninhibit(s, cookie) ==
    LET s1 == [s EXCEPT !.dbus = Append(@, [method |-> "Uninhibit", cookie |-> cookie,
                                            held |-> s.outstanding])]
    IN IF cookie = NoCookie THEN [s1 EXCEPT !.exc = "TypeError"]
       ELSE [s1 EXCEPT !.outstanding = @ \ {cookie[1]}]

\* The part of _updatePowerInhibitionCb that takes a cookie of type t
TakeCookie(s, t) ==
    LET s1 == session_Inhibit(s)
        new_cookie == <<s1.issued>>
        s2 == IF s.cookie # NoCookie THEN session_Uninhibit(s1, s.cookie) ELSE s1
    IN [s2 EXCEPT !.cookie = new_cookie, !.cookie_type = t]

\* An _updatePowerInhibitionCb that takes a screensaver cookie only when it
\* holds none: what C38 rules out.
GnomeSystem_updatePowerInhibitionCb_KeepsSleep(s) ==
    IF sleepIsInhibited(s, NoKey)
    THEN IF s.cookie_type # COOKIE_SLEEP THEN TakeCookie(s, COOKIE_SLEEP) ELSE s
    ELSE IF screensaverIsInhibited(s, NoKey)
    THEN IF s.cookie_type = COOKIE_NONE THEN TakeCookie(s, COOKIE_SCREENSAVER) ELSE s
    ELSE IF CookieNotEqual(s.cookie, COOKIE_NONE)
         THEN LET s1 == session_Uninhibit(s, s.cookie)
              IN IF s1.exc # "" THEN s1
                 ELSE [s1 EXCEPT !.cookie = NoCookie, !.cookie_type = COOKIE_NONE]
         ELSE s

\* GnomeSystem._updatePowerInhibitionCb
GnomeSystem_updatePowerInhibitionCb(s) ==
    IF sleepIsInhibited(s, NoKey)
    THEN IF s.cookie_type # COOKIE_SLEEP THEN TakeCookie(s, COOKIE_SLEEP) ELSE s
    ELSE IF screensaverIsInhibited(s, NoKey)
    THEN IF s.cookie_type # COOKIE_SCREENSAVER THEN TakeCookie(s, COOKIE_SCREENSAVER) ELSE s
    ELSE IF CookieNotEqual(s.cookie, COOKIE_NONE)
         THEN LET s1 == session_Uninhibit(s, s.cookie)
              IN IF s1.exc # "" THEN s1
                 ELSE [s1 EXCEPT !.cookie = NoCookie, !.cookie_type = COOKIE_NONE]
         ELSE s

\* self.emit('update-power-inhibition'): the one connected callback runs; an
\* exception raised in it is reported and does not reach the emitter.
emit_update_power_inhibition(s) ==
    LET s1 == GnomeSystem_updatePowerInhibitionCb([s EXCEPT !.emits = @ + 1])
    IN IF s1.exc = "" THEN s1
       ELSE [s1 EXCEPT !.raised = Append(@, s1.exc), !.exc = ""]

\* System._inhibit; list_ is the attribute the caller passes
System_inhibit(s, list_, key) ==
    IF key = NoKey THEN [s EXCEPT !.raised = Append(@, "AssertionError")]
    ELSE IF ~IsIn(s[list_], key)
    THEN emit_update_power_inhibition([s EXCEPT ![list_] = Append(@, key)])
    ELSE s

\* System._uninhibit; with key None, "list_ = []" binds the local name to a
\* new list: the attribute keeps its keys.
System_uninhibit(s, list_, key) ==
    IF key = NoKey
    THEN IF System_isInhibited(s[list_], NoKey)
         THEN emit_update_power_inhibition(s)
         ELSE s
    ELSE IF IsIn(s[list_], key)
    THEN emit_update_power_inhibition([s EXCEPT ![list_] = Remove(@, key)])
    ELSE s

\* System.inhibitSleep, uninhibitSleep, inhibitScreensaver,
\* uninhibitScreensaver, uninhibitAll
inhibitSleep(s, key) == System_inhibit(s, "sleep_keys", key)

uninhibitSleep(s, key) == System_uninhibit(s, "sleep_keys", key)

inhibitScreensaver(s, key) == System_inhibit(s, "screensaver_keys", key)

uninhibitScreensaver(s, key) == System_uninhibit(s, "screensaver_keys", key)

uninhibitAll(s) == emit_update_power_inhibition(System_reset(s))

\* GnomeSystem.__init__; call is the latest method call and what the lists
\* were before it, dbus, emits and raised are what it did.
GnomeSystem_init ==
    [sleep_keys |-> << >>, screensaver_keys |-> << >>,
     cookie |-> NoCookie, cookie_type |-> COOKIE_NONE,
     issued |-> 0, outstanding |-> {},
     dbus |-> << >>, emits |-> 0, raised |-> << >>, exc |-> "",
     call |-> [op |-> "__init__", key |-> NoKey,
               sleep_keys |-> << >>, screensaver_keys |-> << >>], n |-> 0]

\* ---------------------------------------------------------- initial states
\* The documents a TimelineObserver is constructed over: built with the
\* document's own operations, nothing observing yet.
Blank ==
    [tlLayers |-> {}, prio |-> [l \in Layers |-> l - 1],
     lclips |-> [l \in Layers |-> {}],
     clipObj |-> [c \in UriClips |-> [kind |-> "uri", start |-> ClipStart(c),
                                      duration |-> ClipDuration(c),
                                      children |-> {}, layer |-> None]],
     elemObj |-> EmptyMap, csObj |-> EmptyMap, nid |-> 20,
     layer_observers |-> EmptyMap, obsObj |-> EmptyMap, subs |-> << >>,
     log |-> << >>, updates |-> EmptyMap,
     hist |-> << >>, errs |-> << >>, exc |-> "", mode |-> "ctor"]

\* One layer holding the two overlapping clips and their auto transition.
TwoClips == Call("add_clip", <<add_clip(Call("add_layer", <<Blank, 1>>), 1, 11), 1, 12>>)

\* The same, the first clip carrying an effect whose alpha is bound to a
\* control source with one keyframe.
WithEffect ==
    LET e == TwoClips.nid
        w1 == Call("add_asset", <<TwoClips, 11, "effect">>)
        cs == w1.nid
    IN Call("control_source_set", <<set_control_source(w1, e, cs, "alpha"), cs, 0, 0>>)

InitDocs == {Blank, TwoClips, WithEffect}

Init ==
    \E d \in InitDocs :
        LET w == Call("TimelineObserver_init", <<[d EXCEPT !.hist = << >>]>>)
        IN /\ tlLayers = w.tlLayers
           /\ prio = w.prio
           /\ lclips = w.lclips
           /\ clipObj = w.clipObj
           /\ elemObj = w.elemObj
           /\ csObj = w.csObj
           /\ nid = w.nid
           /\ layer_observers = w.layer_observers
           /\ obsObj = w.obsObj
           /\ subs = w.subs
           /\ log = w.log
           /\ updates = w.updates
           /\ hist = IF Document(w) = Document(d) THEN w.hist
                     ELSE Append(w.hist, [t |-> "mutation",
                                          cb |-> "TimelineObserver.__init__"])
           /\ errs = w.errs
           /\ last = [op |-> "init", obj |-> None, idx |-> 0, kind |-> "",
                      rt |-> FALSE, n0 |-> 0,
                      pre |-> [layers |-> d.tlLayers, clips |-> d.lclips]]
           /\ rtDoc = None
           /\ doc0 = LooseDocView(w)
           /\ editDoc = LooseDocView(w)
           /\ gnome = GnomeSystem_init
           /\ phase = "edit"
           /\ nEdit = 0
           /\ nReplay = 0

Next ==
    \/ \E l \in Layers : AddLayer(l)
    \/ \E l \in Layers : RemoveLayer(l)
    \/ \E l \in Layers, p \in Priorities : MoveLayer(l, p)
    \/ \E l \in Layers, c \in UriClips : AddClip(l, c)
    \/ \E l \in Layers, c \in UriClips : RemoveClip(l, c)
    \/ \E c \in UriClips : AddEffect(c)
    \/ \E c \in UriClips, e \in DOMAIN elemObj : RemoveEffect(c, e)
    \/ \E e \in DOMAIN elemObj, p \in ChildProps, v \in Values :
           SetChildProperty(e, p, v)
    \/ \E e \in DOMAIN elemObj, source \in DOMAIN csObj \cup {nid} :
           SetControlBinding(e, "alpha", source)
    \/ \E e \in DOMAIN elemObj, p \in ChildProps : RemoveControlBinding(e, p)
    \/ \E e \in DOMAIN elemObj, v \in BOOLEAN : SetActive(e, v)
    \/ \E cs \in DOMAIN csObj, ts \in Times, v \in Values : SetKeyframe(cs, ts, v)
    \/ \E cs \in DOMAIN csObj, ts \in Times : UnsetKeyframe(cs, ts)
    \/ \E e \in DOMAIN elemObj, p \in TransitionProps, v \in Values :
           SetTransitionProperty(e, p, v)
    \/ UndoStep
    \/ RedoStep

Spec == Init /\ [][Next]_vars

\* ---------------------------------------------- the methods of two actions
\* ClipRemoved.expand and ActivePropertyChanged.do/undo called on their own:
\* over the observed document WithEffect, log[1] is the ClipRemoved action of
\* clip 11 of layer 1 and log[2] an ActivePropertyChanged action made for a
\* change of the effect's active flag to v; every call is noted in hist.
TheEffect == log[2].a.effect_action.track_element

TheTransitionClip == CHOOSE c \in lclips[1] : get_video_element(World, c) # None

\* What expand() may be offered: the TransitionRemoved action of the layer's
\* auto transition, the same for another layer and for a window away from
\* the clip, and an action of another class.
Candidates ==
    LET t == TransitionClipRemovedAction_new(World, 1, TheTransitionClip)
    IN {t, [t EXCEPT !.ges_layer = 2], [t EXCEPT !.start = 20],
        [kind |-> "ClipAdded", layer |-> 1, clip |-> 12]}

MethodWorld == [World EXCEPT !.hist = hist, !.mode = "replay"]

MethodCall(w) ==
    /\ nReplay < MaxCalls
    /\ Apply(w)
    /\ nReplay' = nReplay + 1
    /\ UNCHANGED <<last, rtDoc, editDoc, phase, nEdit>>

\* self.expand(action), as UndoableActionLog.push calls it
Expand(action) ==
    LET self == log[1].a
        ret == ClipRemoved_expand_accepts(self, action)
        after == IF ret THEN ClipRemoved_expand(self, action) ELSE self
    IN MethodCall(Note([MethodWorld EXCEPT !.log[1].a = after],
                       [t |-> "expand", self |-> self, action |-> action,
                        ret |-> ret, after |-> after]))

ToggleDo ==
    LET r == Call("Do", <<MethodWorld, log[2].a>>)
    IN MethodCall(Note([r.w EXCEPT !.log[2].a = r.a],
                       [t |-> "do", before |-> elemObj[TheEffect].active,
                        wrote |-> r.w.elemObj[TheEffect].active]))

ToggleUndo ==
    LET r == Call("Undo", <<MethodWorld, log[2].a>>)
    IN MethodCall(Note([r.w EXCEPT !.log[2].a = r.a],
                       [t |-> "undo", before |-> elemObj[TheEffect].active,
                        wrote |-> r.w.elemObj[TheEffect].active]))

\* A keyframe is moved, along the time axis or not.
MoveKeyframe(cs, ts0, ts1, v) ==
    /\ ts0 \in DOMAIN csObj[cs]
    /\ ts1 \notin DOMAIN csObj[cs] \ {ts0}
    /\ <<ts1, v>> # <<ts0, csObj[cs][ts0]>>
    /\ MethodCall(Call("keyframe_moved", <<MethodWorld, cs, ts0, ts1, v>>))

\* undo() of the action pushed last
UndoLatest ==
    /\ Len(log) > 2
    /\ log[Len(log)].st = "done"
    /\ LET n == Len(log)
           r == Call("Undo", <<MethodWorld, log[n].a>>)
       IN MethodCall(Note([r.w EXCEPT !.log[n].a = r.a, !.log[n].st = "undone"],
                          [t |-> "undone", a |-> log[n].a, raised |-> r.w.exc,
                           curves |-> r.w.csObj]))

\* The transition actions do() and undo() are called on: the ones among the
\* candidates, and a TransitionAdded for each of them.
TransitionsRemoved == {a \in Candidates : a.kind = "TransitionRemoved"}

TransitionsAdded ==
    {[kind |-> "TransitionAdded", ges_layer |-> a.ges_layer, start |-> a.start,
      duration |-> a.duration, track_element |-> a.track_element] :
        a \in TransitionsRemoved}

\* do() or undo() of a transition action, whether its target can be found
\* or not
ReplayTransition(method, a) ==
    LET r == Call(method, <<MethodWorld, a>>)
    IN MethodCall(Note(r.w, [t |-> "replayed", method |-> method, a |-> a,
                             raised |-> r.w.exc,
                             same |-> r.w.elemObj = elemObj /\ r.w.updates = updates]))

\* The snapshots of the TimelineElementObservers connected to element e.
Snapshots(w, e) ==
    LET ts == {w.subs[n].obs : n \in {m \in 1..Len(w.subs) :
                   w.subs[m].obj = e /\ w.subs[m].sig = "deep-notify"}}
    IN [t \in ts |-> w.obsObj[t].properties]

\* A child property of the effect is set, one the effect had when it was
\* connected or one it got later: deep-notify
NotifyProperty(p, v) ==
    \E e \in {TheEffect} :
        \E w0 \in {[MethodWorld EXCEPT !.elemObj[e].props =
                        IF p \in DOMAIN @ THEN @ ELSE Put(@, p, 0)]} :
            /\ w0.elemObj[e].props[p] # v
            /\ \E w1 \in {Call("set_child_property", <<w0, e, p, v>>)} :
                   MethodCall(Note(w1, [t |-> "notified", obj |-> e, prop |-> p,
                                       before |-> Snapshots(w0, e),
                                       after |-> Snapshots(w1, e),
                                       raised |-> w1.errs]))

MethodInit ==
    \E v \in BOOLEAN, d0 \in {WithEffect} :
        LET e == CHOOSE x \in DOMAIN d0.elemObj : d0.elemObj[x].kind = "BaseEffect"
            d == Call("set_active", <<d0, e, v>>)
            w == Call("TimelineObserver_init", <<[d EXCEPT !.hist = << >>]>>)
            effect_action == TrackElementAction(w, "EffectAdded", 11, e)
        IN /\ tlLayers = w.tlLayers
           /\ prio = w.prio
           /\ lclips = w.lclips
           /\ clipObj = w.clipObj
           /\ elemObj = w.elemObj
           /\ csObj = w.csObj
           /\ nid = w.nid
           /\ layer_observers = w.layer_observers
           /\ obsObj = w.obsObj
           /\ subs = w.subs
           /\ log = <<[a |-> [kind |-> "ClipRemoved", layer |-> 1, clip |-> 11,
                              transition_removed_actions |-> << >>],
                       src |-> "edit", st |-> "done"],
                      [a |-> ActivePropertyChanged(effect_action, v),
                       src |-> "edit", st |-> "done"]>>
           /\ updates = w.updates
           /\ hist = <<[t |-> "created", active |-> v]>>
           /\ errs = w.errs
           /\ last = [op |-> "init", obj |-> None, idx |-> 0, kind |-> "",
                      rt |-> FALSE, n0 |-> 0,
                      pre |-> [layers |-> d.tlLayers, clips |-> d.lclips]]
           /\ rtDoc = None
           /\ doc0 = LooseDocView(w)
           /\ editDoc = LooseDocView(w)
           /\ gnome = GnomeSystem_init
           /\ phase = "edit"
           /\ nEdit = 0
           /\ nReplay = 0

MethodNext ==
    \/ \E action \in Candidates : Expand(action)
    \/ ToggleDo
    \/ ToggleUndo
    \/ \E cs \in DOMAIN csObj, ts0, ts1 \in Times, v \in Values :
           MoveKeyframe(cs, ts0, ts1, v)
    \/ UndoLatest
    \/ \E p \in ChildProps \cup LateProps, v \in Values : NotifyProperty(p, v)
    \/ \E a \in TransitionsAdded : ReplayTransition("Do", a)
    \/ \E a \in TransitionsRemoved : ReplayTransition("Undo", a)

MethodSpec == MethodInit /\ [][MethodNext]_vars

\* ------------------------------------------------ the power inhibitors
\* The methods of GnomeSystem called in any order, the timeline left alone.
SystemCall(op, key, s) ==
    /\ gnome.n < MaxSystemCalls
    /\ gnome' = [s EXCEPT !.n = @ + 1,
                          !.call = [op |-> op, key |-> key,
                                    sleep_keys |-> gnome.sleep_keys,
                                    screensaver_keys |-> gnome.screensaver_keys]]
    /\ UNCHANGED timelineVars

\* The object as a call finds it: nothing done yet.
Fresh == [gnome EXCEPT !.dbus = << >>, !.emits = 0, !.raised = << >>]

InhibitSleep(key) == SystemCall("inhibitSleep", key, inhibitSleep(Fresh, key))

UninhibitSleep(key) == SystemCall("uninhibitSleep", key, uninhibitSleep(Fresh, key))

InhibitScreensaver(key) == SystemCall("inhibitScreensaver", key, inhibitScreensaver(Fresh, key))

UninhibitScreensaver(key) == SystemCall("uninhibitScreensaver", key, uninhibitScreensaver(Fresh, key))

UninhibitAll == SystemCall("uninhibitAll", NoKey, uninhibitAll(Fresh))

SystemInit ==
    /\ Init
    /\ doc0.layers = {}

SystemNext ==
    \/ \E key \in Keys \cup {NoKey} : InhibitSleep(key)
    \/ \E key \in Keys \cup {NoKey} : UninhibitSleep(key)
    \/ \E key \in Keys \cup {NoKey} : InhibitScreensaver(key)
    \/ \E key \in Keys \cup {NoKey} : UninhibitScreensaver(key)
    \/ UninhibitAll

SystemSpec == SystemInit /\ [][SystemNext]_vars

\* ---------------------------------------------------------------- properties
\* What the last step did, read from hist.
IsEv(h, sig) == h.t = "ev" /\ h.sig = sig

IsPush(h, kind) == h.t = "push" /\ h.a.kind = kind

Events == {i \in 1..Len(hist) : hist[i].t = "ev"}

Pushes == {i \in 1..Len(hist) : hist[i].t = "push"}

Commits == {i \in 1..Len(hist) : hist[i].t = "commit"}

\* The pushes a notification's callbacks made: those after it and before the
\* next notification.
PushesOf(i) ==
    {j \in Pushes : j > i /\ \A k \in Events : ~(i < k /\ k < j)}

\* C1 (round trip): when do() of a log entry is followed at once by undo() of
\* the same entry, the document is again the one do() started from, with the
\* same layers, clips and track elements (by identity), property values,
\* priorities and keyframes.
C1_RoundTrip ==
    (last.op = "undo" /\ last.rt) => DocView(World) = rtDoc

\* C2 (sequential reversibility): when the edits so far all pushed actions and
\* every pushed action has then been undone, latest first, the document is the
\* one that held before the first edit.
C2_SequentialReversibility ==
    (phase = "undo" /\ DoneEdits = {}) => LooseDocView(World) = doc0

\* The notification at i says that an auto transition clip holding a video
\* transition element left its layer.
VideoTransitionRemoved(i) ==
    /\ IsEv(hist[i], "clip-removed")
    /\ IsTransitionClip(World, hist[i].arg)
    /\ get_video_element(World, hist[i].arg) # None

\* The video transition element that rests where action t says.
RestoredTransitions(t) ==
    {get_video_element(World, tc) : tc \in
        {c \in lclips[t.ges_layer] :
            /\ IsTransitionClip(World, c)
            /\ clipObj[c].start = t.start
            /\ clipObj[c].duration = t.duration
            /\ get_video_element(World, c) # None}}

\* C3 (compound atomicity): removing an ordinary clip whose auto transition
\* goes with it adds one log entry, a ClipRemoved of that clip that holds the
\* one TransitionRemoved action; and undo() of a ClipRemoved entry that holds
\* TransitionRemoved actions puts the clip back in its layer and leaves, for
\* each of them, a video transition element at the same place with the border,
\* invert and transition-type values the action recorded.
C3_CompoundAtomicity ==
    /\ (last.op = "RemoveClip" /\ \E i \in Events : VideoTransitionRemoved(i)) =>
          /\ Len(log) = last.n0 + 1
          /\ log[Len(log)].a.kind = "ClipRemoved"
          /\ log[Len(log)].a.clip = last.obj
          /\ Len(log[Len(log)].a.transition_removed_actions) = 1
    /\ (/\ last.op = "undo"
        /\ last.kind = "ClipRemoved"
        /\ log[last.idx].a.transition_removed_actions # << >>) =>
          LET a == log[last.idx].a
          IN /\ a.clip \in lclips[a.layer]
             /\ \A n \in 1..Len(a.transition_removed_actions) :
                   LET t == a.transition_removed_actions[n]
                   IN /\ RestoredTransitions(t) # {}
                      /\ \A e \in RestoredTransitions(t) :
                            \A p \in TransitionProps :
                                elemObj[e].props[p] = t.properties[p]

\* The notification an action answers: the action says what the notification
\* said.  A TransitionAdded is also pushed for an existing video transition
\* of a layer that enters the timeline.
Matches(ev, a) ==
    CASE a.kind = "LayerAdded" -> IsEv(ev, "layer-added") /\ ev.arg = a.ges_layer
      [] a.kind = "LayerRemoved" -> IsEv(ev, "layer-removed") /\ ev.arg = a.ges_layer
      [] a.kind = "LayerMoved" -> IsEv(ev, "notify::priority") /\ ev.obj = a.ges_layer
      [] a.kind = "ClipAdded" ->
             IsEv(ev, "clip-added") /\ ev.obj = a.layer /\ ev.arg = a.clip
      [] a.kind = "ClipRemoved" ->
             IsEv(ev, "clip-removed") /\ ev.obj = a.layer /\ ev.arg = a.clip
      [] a.kind = "TransitionAdded" ->
             \/ IsEv(ev, "child-added") /\ ev.arg = a.track_element
             \/ IsEv(ev, "layer-added") /\ ev.arg = a.ges_layer
      [] a.kind = "TransitionRemoved" ->
             /\ IsEv(ev, "clip-removed") /\ ev.obj = a.ges_layer
             /\ get_video_element(World, ev.arg) = a.track_element
      [] a.kind = "EffectAdded" ->
             IsEv(ev, "child-added") /\ ev.obj = a.clip /\ ev.arg = a.track_element
      [] a.kind = "EffectRemoved" ->
             IsEv(ev, "child-removed") /\ ev.obj = a.clip /\ ev.arg = a.track_element
      [] a.kind = "PropertyChanged" ->
             /\ IsEv(ev, "deep-notify") /\ ev.obj = a.track_element
             /\ ev.arg = a.property_name
      [] a.kind = "ObjectPropertyChanged" ->
             IsEv(ev, "notify") /\ ev.obj = a.gobject /\ ev.arg = a.property_name
      [] a.kind = "ControlBindingSet" ->
             /\ IsEv(ev, "control-binding-added")
             /\ ev.obj = a.action_info.element
      [] a.kind = "KeyframeAdded" ->
             /\ IsEv(ev, "value-added") /\ ev.obj = a.control_source
             /\ ev.arg.timestamp = a.timestamp
      [] a.kind = "KeyframeRemoved" ->
             /\ IsEv(ev, "value-removed") /\ ev.obj = a.control_source
             /\ ev.arg.timestamp = a.timestamp
      [] a.kind = "KeyframeChanged" ->
             /\ IsEv(ev, "value-changed") /\ ev.obj = a.control_source
             /\ ev.arg.timestamp = a.new_snapshot[1]
      [] OTHER -> FALSE

\* The kinds of the entries a run of pushes adds to a log whose latest entry
\* is of kind lk: a TransitionRemoved goes into a latest ClipRemoved entry.
RECURSIVE AppendedKinds(_, _)
AppendedKinds(ps, lk) ==
    IF ps = << >> THEN << >>
    ELSE IF Head(ps).a.kind = "TransitionRemoved" /\ lk = "ClipRemoved"
    THEN AppendedKinds(Tail(ps), lk)
    ELSE <<Head(ps).a.kind>> \o AppendedKinds(Tail(ps), Head(ps).a.kind)

PushedInOrder == SelectSeq(hist, LAMBDA h : h.t = "push")

\* A notification that has a subscribed callback which always pushes.
AlwaysAnswered(ev) ==
    \/ IsEv(ev, "layer-added")
    \/ IsEv(ev, "layer-removed")
    \/ /\ IsEv(ev, "clip-added")
       /\ ~IsTransitionClip(World, ev.arg)
       /\ \E n \in 1..Len(subs) : subs[n].obj = ev.obj /\ subs[n].sig = "clip-added"

\* C4 (causal order): in every step, each action is pushed by a callback of
\* the latest notification, which is the one it answers, before any further
\* notification (also when the mutation was made by a do() or an undo());
\* a notification whose callback always pushes has its action pushed before
\* the next notification; and the entries the step added to the log are the
\* pushed actions in the order of the pushes.
C4_CausalOrder ==
    /\ last.op # "init" =>
          \A j \in Pushes :
              \E i \in Events : j \in PushesOf(i) /\ Matches(hist[i], hist[j].a)
    /\ \A i \in Events :
          AlwaysAnswered(hist[i]) =>
              \E j \in PushesOf(i) : Matches(hist[i], hist[j].a)
    /\ [n \in 1..(Len(log) - last.n0) |-> log[last.n0 + n].a.kind]
          = AppendedKinds(PushedInOrder,
                          IF last.n0 = 0 THEN "" ELSE log[last.n0].a.kind)

\* undo() of a ClipRemoved put the clip back: the clip-added it caused was
\* answered by a ClipAdded, and the child-added of the new video transition
\* after it by a TransitionAdded.
C4_Witness ==
    /\ last.op = "undo"
    /\ last.kind = "ClipRemoved"
    /\ \E i1, i2 \in Events :
          /\ i1 < i2
          /\ IsEv(hist[i1], "clip-added")
          /\ \E j \in PushesOf(i1) : IsPush(hist[j], "ClipAdded")
          /\ IsEv(hist[i2], "child-added")
          /\ \E j \in PushesOf(i2) : IsPush(hist[j], "TransitionAdded")

\* The connections of a signal of an object.
SubsOf(obj, sig) == {n \in 1..Len(subs) : subs[n].obj = obj /\ subs[n].sig = sig}

LayerSignals == {"clip-added", "clip-removed", "notify::priority"}

\* C5 (one LayerObserver per layer of the timeline): layer_observers holds
\* exactly the layers that are in the timeline, every one of them has exactly
\* one subscriber to each layer signal, and a layer that is not in the
\* timeline has none.
C5_LayerObserverCorrespondence ==
    /\ DOMAIN layer_observers = tlLayers
    /\ \A l \in Layers, sig \in LayerSignals :
          Cardinality(SubsOf(l, sig)) = IF l \in tlLayers THEN 1 ELSE 0

\* A clip that is in no layer; a track element that is in no clip, or in such
\* a clip; a control source bound on such an element.
DetachedClip(c) == clipObj[c].layer = None

DetachedElement(e) ==
    \/ elemObj[e].parent = None
    \/ DetachedClip(elemObj[e].parent)

Owners(cs) ==
    {e \in DOMAIN elemObj :
        \E p \in DOMAIN elemObj[e].bindings : elemObj[e].bindings[p] = cs}

DetachedControlSource(cs) == \A e \in Owners(cs) : DetachedElement(e)

\* C6 (nothing dangles below the layer): no connection is left on a clip that
\* left its layer, on a track element that left its clip (or whose clip left
\* its layer) or on a control source of such an element; and a property
\* change, a new control binding or a keyframe edit on one of them pushes no
\* action.
C6_NoDanglingCallbacks ==
    /\ \A n \in 1..Len(subs) :
          /\ subs[n].obj \in DOMAIN clipObj => ~DetachedClip(subs[n].obj)
          /\ subs[n].obj \in DOMAIN elemObj => ~DetachedElement(subs[n].obj)
          /\ subs[n].obj \in DOMAIN csObj => ~DetachedControlSource(subs[n].obj)
    /\ (/\ last.op \in {"SetChildProperty", "SetControlBinding"}
        /\ DetachedElement(last.obj)) => Pushes = {}
    /\ (/\ last.op \in {"SetKeyframe", "UnsetKeyframe"}
        /\ DetachedControlSource(last.obj)) => Pushes = {}

\* The element of notification i has the property bound to a control source.
Controlled(i) == hist[i].arg \in DOMAIN elemObj[hist[i].obj].bindings

\* C7 (denylist exclusion): a deep-notify for a property named in
\* PROPS_TO_IGNORE, or for a property of the element that is bound to a
\* control source, is answered by no PropertyChanged action.
C7_DenylistExclusion ==
    \A i \in Events :
        (/\ IsEv(hist[i], "deep-notify")
         /\ (hist[i].arg \in PROPS_TO_IGNORE \/ Controlled(i))) =>
            \A j \in PushesOf(i) : ~IsPush(hist[j], "PropertyChanged")

\* The deep-notify of a property that is bound to a control source, and is
\* not named in PROPS_TO_IGNORE, has reached a TimelineElementObserver.
C7_Witness ==
    /\ last.op = "SetChildProperty"
    /\ SubsOf(last.obj, "deep-notify") # {}
    /\ \E i \in Events :
          /\ IsEv(hist[i], "deep-notify")
          /\ hist[i].arg \notin PROPS_TO_IGNORE
          /\ Controlled(i)

\* The ControlSourceObservers that have not been released.
KeyframeObservers ==
    {k \in DOMAIN obsObj :
        /\ obsObj[k].type = "ControlSourceObserver"
        /\ obsObj[k].control_source # None}

\* C8 (keyframe uniqueness): the keyframes of every ControlSourceObserver are
\* the live curve of its control source, one (timestamp, value) pair for each
\* timestamp; a value set at a timestamp that has a keyframe is logged as one
\* KeyframeChanged and no KeyframeAdded, and a value set at a new timestamp as
\* one KeyframeAdded: never two KeyframeAdded for one timestamp.
C8_KeyframeUniqueness ==
    /\ \A k \in KeyframeObservers :
          LET live == csObj[obsObj[k].control_source]
          IN /\ DOMAIN obsObj[k].keyframes = DOMAIN live
             /\ \A ts \in DOMAIN live : obsObj[k].keyframes[ts] = <<ts, live[ts]>>
    /\ \A i \in Events :
          /\ (IsEv(hist[i], "value-changed") /\ SubsOf(hist[i].obj, "value-changed") # {}) =>
                /\ Cardinality(PushesOf(i)) = 1
                /\ \A j \in PushesOf(i) : IsPush(hist[j], "KeyframeChanged")
          /\ (IsEv(hist[i], "value-added") /\ SubsOf(hist[i].obj, "value-added") # {}) =>
                /\ Cardinality(PushesOf(i)) = 1
                /\ \A j \in PushesOf(i) : IsPush(hist[j], "KeyframeAdded")

LayerEvents == {i \in Events : hist[i].sig \in {"layer-added", "layer-removed"}}

\* C9 (LayerAdded): every layer-added notification is answered by exactly one
\* LayerAdded action, which refers to the added layer; undo() of a LayerAdded
\* action takes that layer, and no other, out of the timeline; and from an
\* empty timeline, adding one layer at priority 0 logs that one action and
\* undoing it leaves no layer.
C9_LayerAdded ==
    /\ \A i \in LayerEvents :
          IsEv(hist[i], "layer-added") =>
              /\ Cardinality({j \in PushesOf(i) : IsPush(hist[j], "LayerAdded")}) = 1
              /\ \A j \in PushesOf(i) :
                    IsPush(hist[j], "LayerAdded") => hist[j].a.ges_layer = hist[i].arg
    /\ (last.op = "undo" /\ last.kind = "LayerAdded") =>
          /\ log[last.idx].a.ges_layer \notin tlLayers
          /\ Cardinality(LayerEvents) = 1
          /\ \A i \in LayerEvents :
                /\ IsEv(hist[i], "layer-removed")
                /\ hist[i].arg = log[last.idx].a.ges_layer
    /\ (doc0.layers = {} /\ nEdit = 1 /\ last.op = "AddLayer") =>
          /\ Cardinality(Pushes) = 1
          /\ \A j \in Pushes :
                hist[j].a = [kind |-> "LayerAdded", ges_layer |-> last.obj]
    /\ (/\ doc0.layers = {} /\ nEdit = 1 /\ nReplay = 1
        /\ last.op = "undo" /\ last.kind = "LayerAdded") => tlLayers = {}

\* From the empty timeline a layer was added at priority 0 and the LayerAdded
\* action was undone.
C9_Witness ==
    /\ doc0.layers = {} /\ nEdit = 1 /\ nReplay = 1
    /\ last.op = "undo" /\ last.kind = "LayerAdded"
    /\ prio[log[last.idx].a.ges_layer] = 0
    /\ tlLayers = {}

StructuralKinds == {"ClipAdded", "ClipRemoved", "LayerAdded", "LayerRemoved"}

StructuralSignals == {"clip-added", "clip-removed", "layer-added", "layer-removed"}

\* C10 (commit discipline): do() and undo() of a ClipAdded, ClipRemoved,
\* LayerAdded or LayerRemoved action call commit_timeline exactly once, after
\* the structural change.
C10_CommitDiscipline ==
    (last.op \in {"undo", "redo"} /\ last.kind \in StructuralKinds) =>
        /\ Cardinality(Commits) = 1
        /\ \A c \in Commits :
              \E i \in Events : i < c /\ hist[i].sig \in StructuralSignals

DerivedKinds ==
    {"PropertyChanged", "EffectAdded", "EffectRemoved", "KeyframeAdded",
     "KeyframeRemoved", "KeyframeChanged", "LayerMoved", "ActiveToggled",
     "TransitionAdded", "TransitionRemoved"}

\* C11 (derived actions never materialize): a do() or an undo() of a
\* PropertyChanged, EffectAdded, EffectRemoved, KeyframeAdded, KeyframeRemoved,
\* KeyframeChanged, LayerMoved, ActiveToggled, TransitionAdded or
\* TransitionRemoved action calls commit_timeline not once; and undo() of a
\* ClipRemoved calls it exactly once, however many TransitionRemoved actions
\* the entry holds and replays.
C11_DerivedNeverCommit ==
    /\ (last.op \in {"undo", "redo"} /\ last.kind \in DerivedKinds) => Commits = {}
    /\ (last.op = "undo" /\ last.kind = "ClipRemoved") => Cardinality(Commits) = 1

\* undo() of a ClipRemoved that holds a TransitionRemoved action has set the
\* transition's properties again, after its one commit.
C11_Witness ==
    /\ last.op = "undo"
    /\ last.kind = "ClipRemoved"
    /\ log[last.idx].a.transition_removed_actions # << >>
    /\ \E c \in Commits, i \in Events :
          c < i /\ IsEv(hist[i], "notify") /\ hist[i].arg \in TransitionProps

ClipKinds == {"ClipAdded", "ClipRemoved"}

LayerObservers == {o \in DOMAIN obsObj : obsObj[o].type = "LayerObserver"}

\* Notification i says that a transition clip entered or left its layer.
TransitionClipEvent(i) ==
    /\ hist[i].sig \in {"clip-added", "clip-removed"}
    /\ IsTransitionClip(World, hist[i].arg)

\* C12 (transition clips are implied): no ClipAdded or ClipRemoved action, in
\* a push or in the log, is about a transition clip; no LayerObserver has a
\* transition clip in clip_observers; and the callbacks of a clip-added or
\* clip-removed notification of a transition clip push nothing but the
\* TransitionRemoved action of its video element.
C12_TransitionClipsImplied ==
    /\ \A j \in Pushes :
          hist[j].a.kind \in ClipKinds => ~IsTransitionClip(World, hist[j].a.clip)
    /\ \A n \in 1..Len(log) :
          log[n].a.kind \in ClipKinds => ~IsTransitionClip(World, log[n].a.clip)
    /\ \A o \in LayerObservers :
          \A c \in DOMAIN obsObj[o].clip_observers : ~IsTransitionClip(World, c)
    /\ \A i \in Events :
          TransitionClipEvent(i) =>
              \A j \in PushesOf(i) :
                  /\ IsEv(hist[i], "clip-removed")
                  /\ IsPush(hist[j], "TransitionRemoved")
                  /\ hist[j].a.track_element = get_video_element(World, hist[i].arg)

\* A clip was added over another: the clip-added of the video transition clip
\* reached a LayerObserver, and the TransitionAdded of its element was pushed.
C12_Witness ==
    /\ last.op = "AddClip"
    /\ \E i \in Events :
          /\ IsEv(hist[i], "clip-added")
          /\ IsTransitionClip(World, hist[i].arg)
          /\ get_video_element(World, hist[i].arg) # None
          /\ SubsOf(hist[i].obj, "clip-added") # {}
    /\ \E j \in Pushes : IsPush(hist[j], "TransitionAdded")

\* The TimelineElementObservers that have not been released.
PropertyObservers ==
    {t \in DOMAIN obsObj :
        /\ obsObj[t].type = "TimelineElementObserver"
        /\ obsObj[t].ges_timeline_element # None}

\* C13 (old and new of a PropertyChanged): every PropertyChanged action a
\* TimelineElementObserver pushes for a deep-notify has as old_value the value
\* the property had right before the change that was notified and as
\* new_value the value it has now, and the observers of the element then hold
\* the live value for the property; whatever happened before, a time during
\* which the property was bound to a control source and changed included.
C13_OldNewCorrect ==
    \A i \in Events :
        IsEv(hist[i], "deep-notify") =>
            \A j \in PushesOf(i) :
                IsPush(hist[j], "PropertyChanged") =>
                    /\ hist[i - 1].t = "set"
                    /\ hist[j].a.old_value = hist[i - 1].old
                    /\ hist[j].a.new_value = hist[i - 1].new
                    /\ \A t \in PropertyObservers :
                          obsObj[t].ges_timeline_element = hist[i].obj =>
                              obsObj[t].properties[hist[i].arg]
                                  = elemObj[hist[i].obj].props[hist[i].arg]

C15_DoubleAttachRejected ==
    \A n, m \in 1..Len(subs) :
        (/\ subs[n].obj = subs[m].obj
         /\ subs[n].sig = subs[m].sig
         /\ subs[n].cb = subs[m].cb) => n = m

\* The step has taken a clip out of a layer or a track element out of a clip.
Detaching == \E i \in Events : hist[i].sig \in {"clip-removed", "child-removed"}

\* C16 (benign absence): disconnecting from a clip or a track element raises
\* no error, whatever observers it has or lacks: a transition clip (which has
\* no clip observer), a track element without a property observer, a control
\* binding whose ControlSourceObserver is not there or was released before.
C16_BenignAbsence == Detaching => errs = << >>

\* The track element has a TimelineElementObserver.
Observed(e) == SubsOf(e, "deep-notify") # {}

\* C17 (toggling active is logged): a change of the active flag of an effect
\* that is observed pushes exactly one action, an ActiveToggled (and so no
\* PropertyChanged).
C17_ActiveToggleLogged ==
    (last.op = "SetActive" /\ Observed(last.obj)) =>
        /\ Cardinality(Pushes) = 1
        /\ \A j \in Pushes : IsPush(hist[j], "ActiveToggled")

\* An interactive edit is in progress.
Editing(ui) == ui.ui = "present" /\ ui.editing_context # None

\* C18 (no scripted record during an interactive edit): while
\* timeline.ui.editing_context is not None, asScenarioAction() of every
\* action of the log renders no record.
C18_ScriptedRecordSuppressed ==
    \A n \in 1..Len(log), ui \in UiContexts :
        Editing(ui) => asScenarioAction(World, log[n].a, ui) = NoRecord

\* The calls of expand() so far.
ExpandCalls == {i \in 1..Len(hist) : hist[i].t = "expand"}

\* The action is a TransitionRemoved of the layer of the ClipRemoved, and its
\* time window touches that of the removed clip.
MatchesClip(self, action) ==
    /\ action.kind = "TransitionRemoved"
    /\ action.ges_layer = self.layer
    /\ action.start <= clipObj[self.clip].start + clipObj[self.clip].duration
    /\ clipObj[self.clip].start <= action.start + action.duration

\* C19 (what expand absorbs): ClipRemoved.expand returns True, and appends
\* the candidate, exactly when the candidate is a TransitionRemoved action of
\* the same layer whose time window touches the removed clip; for any other
\* candidate it returns False and the absorbed list is as before.
C19_ExpandOnlyMatching ==
    \A i \in ExpandCalls :
        LET h == hist[i]
        IN /\ h.ret = MatchesClip(h.self, h.action)
           /\ h.ret =>
                 h.after.transition_removed_actions
                     = Append(h.self.transition_removed_actions, h.action)
           /\ ~h.ret => h.after = h.self

\* The calls of do() and undo() of the ActivePropertyChanged action so far.
ToggleCalls == SelectSeq(hist, LAMBDA h : h.t \in {"do", "undo"})

\* C20 (two-state toggle): an ActivePropertyChanged action made for a change
\* of the flag to v writes not v at its first call and at every later call
\* the complement of what it wrote before, whether the call is do() or
\* undo(); so undo() then do() after the toggle leaves the flag at v, and a
\* do() followed at once by undo() leaves the flag as it was before the do().
C20_TwoStateToggle ==
    LET v == hist[1].active
        calls == ToggleCalls
    IN /\ \A n \in 1..Len(calls) :
             /\ calls[n].wrote = IF n = 1 THEN ~v ELSE ~calls[n - 1].wrote
             /\ n = Len(calls) => elemObj[TheEffect].active = calls[n].wrote
       /\ (/\ Len(calls) = 2
           /\ calls[1].t = "undo"
           /\ calls[2].t = "do") => elemObj[TheEffect].active = v
       /\ \A n \in 1..(Len(calls) - 1) :
             (calls[n].t = "do" /\ calls[n + 1].t = "undo") =>
                 calls[n + 1].wrote = calls[n].before

\* After the toggle to v, undo() and then do() were called.
C20_Witness ==
    /\ Len(ToggleCalls) = 2
    /\ ToggleCalls[1].t = "undo"
    /\ ToggleCalls[2].t = "do"
    /\ elemObj[TheEffect].active = hist[1].active

\* The LayerMoved actions pushed by the callbacks of notification i.
LayerMovedOf(i) == {j \in PushesOf(i) : IsPush(hist[j], "LayerMoved")}

\* C21 (layer priority shadow): each notify::priority of a layer that has a
\* LayerObserver connected pushes exactly one LayerMoved, whose old_priority
\* is the priority the layer had before the change and whose priority is the
\* live one; and every LayerObserver holds the live priority of its layer
\* after every step, the undo() and do() of a LayerMoved included.
C21_PriorityShadow ==
    /\ \A i \in Events :
          (IsEv(hist[i], "notify::priority")
              /\ SubsOf(hist[i].obj, "notify::priority") # {}) =>
              /\ Cardinality(LayerMovedOf(i)) = 1
              /\ \A j \in LayerMovedOf(i) :
                    /\ hist[j].a.ges_layer = hist[i].obj
                    /\ hist[j].a.old_priority = hist[i - 1].old
                    /\ hist[j].a.priority = hist[i - 1].new
                    /\ hist[j].a.priority = prio[hist[i].obj]
    /\ \A o \in LayerObservers : obsObj[o].priority = prio[obsObj[o].layer]

\* The ControlBindingSet actions pushed by the callbacks of notification i.
ControlBindingSetOf(i) == {j \in PushesOf(i) : IsPush(hist[j], "ControlBindingSet")}

\* LayerObserver o has, for control source cs, a ControlSourceObserver that is
\* connected to it.
WatchesControlSource(o, cs) ==
    /\ cs \in DOMAIN obsObj[o].keyframe_observers
    /\ LET k == obsObj[o].keyframe_observers[cs]
       IN /\ obsObj[k].type = "ControlSourceObserver"
          /\ obsObj[k].control_source = cs
          /\ \E n \in SubsOf(cs, "value-added") : subs[n].obs = k

\* C22 (a new binding is observed and logged): each control-binding-added of
\* a track element that has _controlBindingAddedCb connected leaves the
\* connected LayerObserver with a ControlSourceObserver of the binding's
\* control source in keyframe_observers, and pushes exactly one
\* ControlBindingSet, which carries the element and the bound property.
C22_BindingObservedAndLogged ==
    \A i \in Events :
        (IsEv(hist[i], "control-binding-added")
            /\ SubsOf(hist[i].obj, "control-binding-added") # {}) =>
            /\ \A n \in SubsOf(hist[i].obj, "control-binding-added") :
                  WatchesControlSource(subs[n].obs, hist[i].arg.control_source)
            /\ Cardinality(ControlBindingSetOf(i)) = 1
            /\ \A j \in ControlBindingSetOf(i) :
                  /\ hist[j].a.action_info.element = hist[i].obj
                  /\ hist[j].a.action_info.property = hist[i].arg.name

\* The KeyframeRemoved actions pushed by the callbacks of notification i.
KeyframeRemovedOf(i) == {j \in PushesOf(i) : IsPush(hist[j], "KeyframeRemoved")}

\* Where the step's ControlSourceObservers dropped a pair from their snapshot.
SnapshotDrops == {d \in 1..Len(hist) : hist[d].t = "del"}

\* The drop of the callback that made push j: the latest one before the next
\* push.
DropOf(i, j) ==
    {d \in SnapshotDrops :
        /\ i < d
        /\ \A k \in Events : ~(i < k /\ k < d)
        /\ \A k \in Pushes : ~(d < k /\ k < j) /\ ~(j < k /\ k < d)}

\* C23 (a removed keyframe is logged from the snapshot): every KeyframeRemoved
\* pushed for a value-removed carries the (timestamp, value) pair the
\* observer's snapshot held for the timestamp, the observer drops the pair
\* from its snapshot only after the push, and undo() of a KeyframeRemoved
\* leaves the control source with exactly that pair at the timestamp.
C23_RemovedFromSnapshot ==
    /\ \A i \in Events :
          IsEv(hist[i], "value-removed") =>
              \A j \in KeyframeRemovedOf(i) :
                  /\ DropOf(i, j) # {}
                  /\ \A d \in DropOf(i, j) :
                        /\ hist[d].pair = <<hist[j].a.timestamp, hist[j].a.value>>
                        /\ j < d
    /\ (last.op = "undo" /\ last.kind = "KeyframeRemoved" /\ errs = << >>) =>
          LET a == log[last.idx].a
          IN /\ a.timestamp \in DOMAIN csObj[a.control_source]
             /\ csObj[a.control_source][a.timestamp] = a.value

\* The keyframe moves so far: hist[m] says what moved, hist[m + 1] is the
\* value-changed of the move.
Moves == {m \in 1..Len(hist) : hist[m].t = "move"}

\* The KeyframeChanged actions pushed by the callbacks of notification i.
KeyframeChangedOf(i) == {j \in PushesOf(i) : IsPush(hist[j], "KeyframeChanged")}

\* The undo() calls that came right after push j, nothing moving in between.
UndoneRightAfter(j) ==
    {u \in 1..Len(hist) :
        /\ hist[u].t = "undone"
        /\ j < u
        /\ hist[u].a = hist[j].a
        /\ \A k \in (j + 1)..(u - 1) : hist[k].t \notin {"move", "undone"}}

\* The ControlSourceObservers connected to the control source.
ObserversOf(cs) == {subs[n].obs : n \in SubsOf(cs, "value-changed")}

\* C24 (a moved keyframe): for every keyframe move a KeyframeChanged is
\* pushed whose old_snapshot is the pair the keyframe had before the move and
\* whose new_snapshot is its pair now; after the latest move the snapshot of
\* each observer of the control source holds the pairs of the curve; and
\* undo() of the pushed action gives the curve the pairs it had before the
\* move; also when the move changes the timestamp of the keyframe.
C24_KeyframeMoved ==
    \A m \in Moves :
        /\ KeyframeChangedOf(m + 1) # {}
        /\ \A j \in KeyframeChangedOf(m + 1) :
              /\ hist[j].a.old_snapshot = hist[m].old
              /\ hist[j].a.new_snapshot = hist[m].new
              /\ \A u \in UndoneRightAfter(j) : hist[u].curves = hist[m].curves
        /\ (\A k \in (m + 2)..Len(hist) : hist[k].t \notin {"ev", "move"}) =>
              \A k \in ObserversOf(hist[m].cs) :
                  obsObj[k].keyframes =
                      [ts \in DOMAIN csObj[hist[m].cs] |->
                          <<ts, csObj[hist[m].cs][ts]>>]

\* The do() and undo() calls on transition actions so far.
TransitionReplays == {n \in 1..Len(hist) : hist[n].t = "replayed"}

\* The layer the action recorded holds no transition clip with the recorded
\* start and duration that has a video transition element.  (No step of
\* MethodSpec adds or removes a clip.)
Unresolved(a) ==
    \A c \in lclips[a.ges_layer] :
        ~(/\ IsTransitionClip(World, c)
          /\ clipObj[c].start = a.start
          /\ clipObj[c].duration = a.duration
          /\ get_video_element(World, c) # None)

\* C25 (an unresolved transition target fails loudly): do() of a
\* TransitionAdded and undo() of a TransitionRemoved whose target cannot be
\* found raise an error and change no element and no identity substitution.
C25_UnresolvedFailsLoudly ==
    \A n \in TransitionReplays :
        Unresolved(hist[n].a) => hist[n].raised # "" /\ hist[n].same

TransitionKinds == {"TransitionAdded", "TransitionRemoved"}

\* An auto transition clip without a video transition element.
AudioOnly(c) == IsTransitionClip(World, c) /\ get_video_element(World, c) = None

\* The audio-only transition clips that rest where action t says.
AudioTwins(t) ==
    {c \in lclips[t.ges_layer] :
        /\ AudioOnly(c)
        /\ clipObj[c].start = t.start
        /\ clipObj[c].duration = t.duration}

\* The action's element was resolved to a video transition element that
\* rests where the action says.
ResolvedToVideo(t) ==
    /\ t.track_element \in DOMAIN updates
    /\ updates[t.track_element] \in RestoredTransitions(t)
    /\ elemObj[updates[t.track_element]].kind = "VideoTransition"

\* C26 (audio-only transition clips are skipped): every TransitionAdded and
\* TransitionRemoved pushed is about a video transition element, and none is
\* pushed for the notifications of an audio-only transition clip; and when
\* do() of a TransitionAdded or undo() of a TransitionRemoved looks for its
\* target by layer, start and duration, it gets past the audio-only clip and
\* finds the video transition element whenever the layer has one there.
C26_AudioTransitionsSkipped ==
    /\ \A j \in Pushes :
          hist[j].a.kind \in TransitionKinds =>
              elemObj[hist[j].a.track_element].kind = "VideoTransition"
    /\ \A i \in Events :
          \/ /\ hist[i].sig \in {"clip-added", "clip-removed"}
             /\ AudioOnly(hist[i].arg)
          \/ /\ hist[i].sig = "child-added"
             /\ elemObj[hist[i].arg].kind = "AudioTransition"
          => \A j \in PushesOf(i) : hist[j].a.kind \notin TransitionKinds
    /\ (/\ last.op = "redo"
        /\ last.kind = "TransitionAdded"
        /\ RestoredTransitions(log[last.idx].a) # {}) =>
          errs = << >> /\ ResolvedToVideo(log[last.idx].a)
    /\ (last.op = "undo" /\ last.kind = "ClipRemoved") =>
          \A n \in 1..Len(log[last.idx].a.transition_removed_actions) :
              LET t == log[last.idx].a.transition_removed_actions[n]
              IN RestoredTransitions(t) # {} => ResolvedToVideo(t)

\* undo() of a ClipRemoved resolved an absorbed TransitionRemoved to the new
\* video transition element, the audio-only clip of the same start and
\* duration being in the layer; the step's audio-only clip was notified too.
C26_Witness ==
    /\ last.op = "undo"
    /\ last.kind = "ClipRemoved"
    /\ \E n \in 1..Len(log[last.idx].a.transition_removed_actions) :
          LET t == log[last.idx].a.transition_removed_actions[n]
          IN AudioTwins(t) # {} /\ ResolvedToVideo(t)
    /\ \E i \in Events : hist[i].sig = "clip-added" /\ AudioOnly(hist[i].arg)

\* The callbacks of the step that changed the document.
Mutations == {n \in 1..Len(hist) : hist[n].t = "mutation"}

\* The transition actions a replayed log entry calls do() or undo() of: the
\* entry itself, and for undo() of a ClipRemoved the TransitionRemoved
\* actions it holds.
ReplayedTransitionKinds ==
    IF last.kind \in TransitionKinds THEN {last.kind}
    ELSE IF /\ last.op = "undo"
            /\ last.kind = "ClipRemoved"
            /\ log[last.idx].a.transition_removed_actions # << >>
    THEN {"TransitionRemoved"}
    ELSE {}

\* C27 (re-entrancy terminates): in a completed undo() or redo() every push
\* is made by a callback of one of the notifications of the replay; no
\* callback changes the document (so none starts a further notification);
\* and replaying a transition action pushes no transition action of its own
\* class.
C27_ReentrancyTerminates ==
    /\ Mutations = {}
    /\ last.op \in {"undo", "redo"} =>
          /\ \A j \in Pushes : \E i \in Events : j \in PushesOf(i)
          /\ \A j \in Pushes : hist[j].a.kind \notin ReplayedTransitionKinds

\* undo() of a ClipRemoved called undo() of a TransitionRemoved it holds; the
\* callbacks of its notifications pushed other actions, a TransitionAdded
\* among them.
C27_Witness ==
    /\ last.op = "undo"
    /\ ReplayedTransitionKinds = {"TransitionRemoved"}
    /\ Events # {}
    /\ \E j \in Pushes : IsPush(hist[j], "TransitionAdded")

\* The property notifications made on their own so far: hist[n] says what
\* the observers held before and after, the deep-notify is the latest
\* notification before n.
Notified == {n \in 1..Len(hist) : hist[n].t = "notified"}

NotificationOf(n) == Max({i \in Events : i < n})

\* C28 (a property without snapshot is fatal): a deep-notify of a property
\* that is not denylisted, not bound to a control source and not in the
\* snapshot of the element's TimelineElementObserver makes the callback
\* raise an error; no action is pushed and the snapshot stays as it was.
C28_UnknownPropertyFatal ==
    \A n \in Notified :
        \A t \in DOMAIN hist[n].before :
            (/\ hist[n].prop \notin PROPS_TO_IGNORE
             /\ hist[n].prop \notin DOMAIN elemObj[hist[n].obj].bindings
             /\ hist[n].prop \notin DOMAIN hist[n].before[t]) =>
                /\ hist[n].raised # << >>
                /\ PushesOf(NotificationOf(n)) = {}
                /\ hist[n].after[t] = hist[n].before[t]

\* The effect got a property after its observer was made, the property was
\* set, and the observer's callback raised KeyError.
C28_Witness ==
    \E n \in Notified :
        /\ hist[n].prop \in LateProps
        /\ DOMAIN hist[n].before # {}
        /\ hist[n].raised = <<"KeyError">>

\* The EffectAdded (EffectRemoved) actions pushed by the callbacks of
\* notification i.
EffectAddedOf(i) == {j \in PushesOf(i) : IsPush(hist[j], "EffectAdded")}

EffectRemovedOf(i) == {j \in PushesOf(i) : IsPush(hist[j], "EffectRemoved")}

\* The value child property p of element e had when hist[j] was written: the
\* old value of the first later write, or the value it has now.
SetsAfter(j, e, p) == {k \in j..Len(hist) : hist[k].t = "set" /\ hist[k].obj = e /\ hist[k].prop = p}

ValueAt(j, e, p) == IF SetsAfter(j, e, p) = {} THEN elemObj[e].props[p] ELSE hist[Min(SetsAfter(j, e, p))].old

\* What a TrackElementAction has to capture of element e at hist[j].
CapturedAt(j, e) == [p \in DOMAIN elemObj[e].props \ PROPS_TO_IGNORE |-> ValueAt(j, e, p)]

IsEffectEv(i, sig) == IsEv(hist[i], sig) /\ SubsOf(hist[i].obj, sig) # {} /\ elemObj[hist[i].arg].kind = "BaseEffect"

\* C29 (effect lifecycle): each child-added (child-removed) of an effect on
\* an observed clip pushes exactly one EffectAdded (EffectRemoved), which
\* holds the value every non-denylisted child property of the effect has at
\* that moment; after undo() of an EffectRemoved its clip has an effect of
\* the same asset with the captured values, and after undo() of an
\* EffectAdded the effect the action held is not a child of its clip.
C29_EffectLifecycle ==
    /\ \A i \in Events :
          /\ IsEffectEv(i, "child-added") =>
                /\ Cardinality(EffectAddedOf(i)) = 1
                /\ \A j \in EffectAddedOf(i) :
                      /\ hist[j].a.clip = hist[i].obj
                      /\ hist[j].a.asset = elemObj[hist[i].arg].asset
                      /\ hist[j].a.track_element_props = CapturedAt(j, hist[i].arg)
          /\ IsEffectEv(i, "child-removed") =>
                /\ Cardinality(EffectRemovedOf(i)) = 1
                /\ \A j \in EffectRemovedOf(i) :
                      /\ hist[j].a.clip = hist[i].obj
                      /\ hist[j].a.asset = elemObj[hist[i].arg].asset
                      /\ hist[j].a.track_element_props = CapturedAt(j, hist[i].arg)
    /\ (last.op = "undo" /\ last.kind = "EffectRemoved") =>
          LET a == log[last.idx].a
          IN \E e \in Effects(World, a.clip) :
                /\ elemObj[e].asset = a.asset
                /\ \A p \in DOMAIN a.track_element_props :
                      elemObj[e].props[p] = a.track_element_props[p]
    /\ (last.op = "undo" /\ last.kind = "EffectAdded") =>
          \A n \in 1..Len(hist) :
              hist[n].t = "remove" => hist[n].elem \notin clipObj[hist[n].clip].children

\* The PropertyChanged actions pushed by the callbacks of notification i
\* for the property the notification names.
PropertyChangedOf(i) == {j \in PushesOf(i) : IsPush(hist[j], "PropertyChanged") /\ hist[j].a.track_element = hist[i].obj /\ hist[j].a.property_name = hist[i].arg}

\* The track elements that get a full observer according to C30.
ObservedKinds == {"BaseEffect", "VideoSource", "AudioSource"}

\* C30 (audio sources are observed like video sources): each deep-notify of
\* a non-denylisted child property without control binding, on an effect or
\* a video or audio source of a clip of the document, pushes a
\* PropertyChanged for that element and property.
C30_AudioSourceObserved ==
    \A i \in Events :
        (/\ IsEv(hist[i], "deep-notify")
         /\ elemObj[hist[i].obj].kind \in ObservedKinds
         /\ elemObj[hist[i].obj].parent # None
         /\ InDoc(World, elemObj[hist[i].obj].parent)
         /\ hist[i].arg \notin PROPS_TO_IGNORE
         /\ hist[i].arg \notin DOMAIN elemObj[hist[i].obj].bindings) =>
            PropertyChangedOf(i) # {}

\* C31 (observers are passive): the TimelineObserver constructor, and with
\* it every observer constructor it calls, returns with the document it was
\* given, and every notification callback of every step returns with the
\* document it was called on: layers, priorities, clips, track elements,
\* property values and keyframes.
C31_ObserversPassive ==
    \A n \in 1..Len(hist) : hist[n].t # "mutation"

\* A clip was added to an observed layer: the callback made observers for
\* the clip and its elements and pushed a ClipAdded.
C31_Witness ==
    /\ last.op = "AddClip"
    /\ \E i \in Events : IsEv(hist[i], "clip-added") /\ SubsOf(hist[i].obj, "clip-added") # {}
    /\ \E j \in Pushes : IsPush(hist[j], "ClipAdded")
    /\ SubsOf(last.obj, "child-added") # {}

\* C32 (*Added only after an add notification): the construction of a
\* TimelineObserver over a timeline that has layers, clips and transitions
\* already calls push for no action.
C32_ConstructionPushesNothing ==
    last.op = "init" => Pushes = {}

\* The scripted record of the action of log entry n as rendered now, outside
\* any editing context of the application.
RecordOf(n) == asScenarioAction(World, log[n].a, [ui |-> "absent", editing_context |-> None, splitting_object |-> FALSE])

LayerMovedEntries == {n \in 1..Len(log) : log[n].a.kind = "LayerMoved"}

\* C33 (deterministic scripted record): the record of a logged action is the
\* one its captured fields give, whenever it is rendered: right after the
\* push, after later edits and after the action's own undo.  The record of
\* a LayerMoved carries the new priority the action captured.
C33_DeterministicRecord ==
    \A n \in LayerMovedEntries :
        /\ RecordOf(n).name = "move-layer"
        /\ RecordOf(n).priority = log[n].a.priority

\* C34 (redo consistency): when the edits so far all pushed actions, every
\* pushed action has been undone, latest first, and do() has then been
\* called on every one of them, earliest first, the document is the one
\* that held after the last edit: an effect that was added and then had a
\* property changed is there once, with the changed value.
C34_RedoConsistency ==
    (phase = "redo" /\ UndoneEdits = {}) => LooseDocView(World) = editDoc

KeyframeSignals == {"value-added", "value-changed", "value-removed"}

KeyframeKinds == {"KeyframeAdded", "KeyframeChanged", "KeyframeRemoved"}

\* The Keyframe* actions pushed by the callbacks of notification i.
KeyframeActionsOf(i) == {j \in PushesOf(i) : hist[j].t = "push" /\ hist[j].a.kind \in KeyframeKinds}

\* The control sources bound to a property of a track element of a clip of
\* layer l.
BoundSources(l) ==
    {cs \in DOMAIN csObj :
        \E e \in DOMAIN elemObj :
            /\ elemObj[e].kind \notin {"VideoTransition", "AudioTransition"}
            /\ elemObj[e].parent \in lclips[l]
            /\ \E p \in DOMAIN elemObj[e].bindings : elemObj[e].bindings[p] = cs}

\* No control binding has been removed: every control source is bound to a
\* property of some track element (a binding goes only by
\* remove_control_binding, and a track element keeps its bindings when it
\* leaves its clip).
NoBindingRemoved ==
    \A cs \in DOMAIN csObj :
        \E e \in DOMAIN elemObj :
            \E p \in DOMAIN elemObj[e].bindings : elemObj[e].bindings[p] = cs

\* C35 (one keyframe action per keyframe event): as long as bindings are only
\* added, each value-added, value-changed or value-removed notification of
\* an observed control source pushes exactly one Keyframe* action, and the
\* keyframe_observers of the LayerObserver of every layer of the timeline
\* holds exactly the control sources bound to the track elements of the
\* layer's clips.
C35_OneKeyframeAction ==
    NoBindingRemoved =>
    /\ \A i \in Events :
          (hist[i].sig \in KeyframeSignals /\ SubsOf(hist[i].obj, hist[i].sig) # {}) =>
              Cardinality(KeyframeActionsOf(i)) = 1
    /\ \A l \in tlLayers :
          l \in DOMAIN layer_observers =>
              DOMAIN obsObj[layer_observers[l]].keyframe_observers = BoundSources(l)

ClipSignals == {"clip-added", "clip-removed"}

\* The ClipAdded and ClipRemoved actions pushed by the callbacks of
\* notification i for the clip the notification names.
ClipActionsOf(i, kind) == {j \in PushesOf(i) : IsPush(hist[j], kind) /\ hist[j].a.clip = hist[i].arg /\ hist[j].a.layer = hist[i].obj}

\* No control source is bound twice: the bindings are the ones the document
\* started with or one new source for each.
SingleBindings ==
    \A cs \in DOMAIN csObj :
        Cardinality({e \in DOMAIN elemObj :
            \E p \in DOMAIN elemObj[e].bindings : elemObj[e].bindings[p] = cs}) <= 1

\* C36 (one clip action per clip event): each clip-added notification of an
\* ordinary clip on a layer of the timeline pushes exactly one ClipAdded for
\* that clip and layer, and each clip-removed notification exactly one
\* ClipRemoved, whatever layers were removed and added again before (the
\* control bindings being as the claim leaves them: one per control source).
C36_OneClipAction ==
    \A i \in Events :
        (/\ SingleBindings
         /\ hist[i].sig \in ClipSignals
         /\ hist[i].obj \in tlLayers
         /\ ~IsTransitionClip(World, hist[i].arg)) =>
            /\ IsEv(hist[i], "clip-added") => Cardinality(ClipActionsOf(i, "ClipAdded")) = 1
            /\ IsEv(hist[i], "clip-removed") => Cardinality(ClipActionsOf(i, "ClipRemoved")) = 1

UninhibitOps == {"uninhibitSleep", "uninhibitScreensaver"}

\* The key list a call of uninhibitSleep or uninhibitScreensaver is about,
\* as it was before the call.
ListBefore(call) == IF call.op = "uninhibitSleep" THEN call.sleep_keys ELSE call.screensaver_keys

\* C37 (power inhibition): after uninhibitSleep(None) the sleep key list is
\* empty and sleepIsInhibited() is False, after uninhibitScreensaver(None)
\* the same holds of the screensaver keys; and uninhibiting a key that is
\* not inhibited changes no key list and emits no update-power-inhibition.
C37_UninhibitClears ==
    /\ (gnome.call.op = "uninhibitSleep" /\ gnome.call.key = NoKey) =>
          /\ gnome.sleep_keys = << >>
          /\ ~sleepIsInhibited(gnome, NoKey)
    /\ (gnome.call.op = "uninhibitScreensaver" /\ gnome.call.key = NoKey) =>
          /\ gnome.screensaver_keys = << >>
          /\ ~screensaverIsInhibited(gnome, NoKey)
    /\ (/\ gnome.call.op \in UninhibitOps
        /\ gnome.call.key # NoKey
        /\ ~IsIn(ListBefore(gnome.call), gnome.call.key)) =>
          /\ gnome.sleep_keys = gnome.call.sleep_keys
          /\ gnome.screensaver_keys = gnome.call.screensaver_keys
          /\ gnome.emits = 0

\* C38 (cookie state follows the key lists): after every call, cookie_type
\* is COOKIE_SLEEP exactly when a sleep key is held, COOKIE_SCREENSAVER
\* exactly when no sleep key and some screensaver key is held, COOKIE_NONE
\* exactly when no key is held; and cookie is None exactly when cookie_type
\* is COOKIE_NONE.
C38_CookieTracksLists ==
    /\ (gnome.cookie_type = COOKIE_SLEEP) <=> (gnome.sleep_keys # << >>)
    /\ (gnome.cookie_type = COOKIE_SCREENSAVER) <=> (gnome.sleep_keys = << >> /\ gnome.screensaver_keys # << >>)
    /\ (gnome.cookie_type = COOKIE_NONE) <=> (gnome.sleep_keys = << >> /\ gnome.screensaver_keys = << >>)
    /\ (gnome.cookie = NoCookie) <=> (gnome.cookie_type = COOKIE_NONE)

\* The last sleep key was given up while a screensaver key was held: the
\* callback took a screensaver cookie and gave the sleep cookie back.
C38_Witness ==
    /\ gnome.call.op = "uninhibitSleep"
    /\ gnome.call.sleep_keys # << >>
    /\ gnome.sleep_keys = << >>
    /\ gnome.screensaver_keys # << >>
    /\ gnome.cookie_type = COOKIE_SCREENSAVER
    /\ Len(gnome.dbus) = 2

\* The session-manager calls of the latest method call.
Uninhibits == {i \in 1..Len(gnome.dbus) : gnome.dbus[i].method = "Uninhibit"}

\* C39 (session-manager protocol): Uninhibit is called only with a cookie
\* that Inhibit returned and that has not been given back (never with None,
\* never twice with one cookie), and after each call the outstanding cookies
\* are self.cookie alone, or none when self.cookie is None.
C39_SessionProtocol ==
    /\ \A i \in Uninhibits :
          /\ gnome.dbus[i].cookie # NoCookie
          /\ gnome.dbus[i].cookie[1] \in gnome.dbus[i].held
    /\ gnome.outstanding = {gnome.cookie[i] : i \in 1..Len(gnome.cookie)}

=============================================================================
